---- MODULE Spec2Model ----
(***************************************************************************)
(* State-machine model of the spatial engine: Location, SpatialIndex,      *)
(* LiDARProcessor, ProximityService, the SpatialEngine facade and the gRPC *)
(* server handlers.                                                        *)
(*                                                                         *)
(* Units.  Lengths are integers in centimetres (0.5 m = 50, 50 m = 5000),  *)
(* angles are integer degrees, confidences are integer thousandths.        *)
(* Trigonometry is exact on the multiples of 90 degrees, which is where    *)
(* the model's inputs lie.  Where the program compares f64 lengths, the    *)
(* model compares the f64 values of the centimetre counts (section "f64    *)
(* lengths").                                                              *)
(***************************************************************************)
EXTENDS Integers, Sequences, FiniteSets, TLC

(***************************************************************************)
(* Bounds of the model                                                     *)
(***************************************************************************)
\* Number of concurrently running calls (tasks).
NumTasks == 2
\* Largest number of runs of identical points in one scan frame.
MaxRuns == 2
\* Largest value of the nanosecond reading that becomes a synthetic point id.
MaxNanos == 1
\* Largest elapsed time (ms) a call measures for its duration metric.
MaxElapsedMs == 1
\* Largest number of requests a client sends on one stream.
MaxRequests == 3

(***************************************************************************)
(* Program constants (source values; lengths converted to centimetres)     *)
(***************************************************************************)
EARTH_RADIUS_METERS == 637100000
MIN_ALTITUDE_METERS == -10000
MAX_ALTITUDE_METERS == 1000000
MIN_ACCURACY_METERS == 1
MAX_ACCURACY_METERS == 5000
DEFAULT_CONFIDENCE_THRESHOLD == 950
MAX_POINTS_PER_QUERY == 1000
MIN_LIDAR_RANGE_METERS == 50
MAX_LIDAR_RANGE_METERS == 5000
PRECISION_AT_10M_CM == 1
MIN_SCAN_RANGE_METERS == 50
MAX_SCAN_RANGE_METERS == 5000
MIN_CONFIDENCE_THRESHOLD == 850
MAX_POINTS_PER_SCAN == 100000
DEFAULT_DISCOVERY_RADIUS_METERS == 5000
MIN_INTERACTION_DISTANCE_METERS == 50
MAX_RESULTS_PER_QUERY == 100
MIN_CONFIDENCE_SCORE == 700
MIN_BATTERY_LEVEL == 15
INITIAL_BATTERY_LEVEL == 100

Tasks == 1..NumTasks
NoTask == 0

(***************************************************************************)
(* Integer helpers                                                         *)
(***************************************************************************)
Abs(n) == IF n < 0 THEN -n ELSE n

Max2(a, b) == IF a >= b THEN a ELSE b

\* f64::sqrt rounded down, for n whose root lies in lo..(2 * lo + 1): the
\* root of a sum of up to three squares, lo being the largest magnitude.
ISqrt(n, lo) == CHOOSE r \in lo..(2 * lo + 1) : r * r <= n /\ (r + 1) * (r + 1) > n

\* Exact cosine and sine on the multiples of 90 degrees.
CosDeg(d) == CASE d = 0 -> 1
               [] d = 90 -> 0
               [] d = -90 -> 0
               [] d = 180 -> -1
               [] d = -180 -> -1

SinDeg(d) == CASE d = 0 -> 0
               [] d = 90 -> 1
               [] d = -90 -> -1
               [] d = 180 -> 0
               [] d = -180 -> 0

\* f64::atan2(y, x) in degrees, exact on the coordinate axes.
Atan2Deg(y, x) == CASE y = 0 /\ x >= 0 -> 0
                    [] y = 0 /\ x < 0 -> 180
                    [] y > 0 /\ x = 0 -> 90
                    [] y < 0 /\ x = 0 -> -90

(***************************************************************************)
(* nalgebra points                                                         *)
(***************************************************************************)
Point3(x, y, z) == [x |-> x, y |-> y, z |-> z]

\* The pose transform of every processor the program builds.
IdentityMatrix == << <<1, 0, 0, 0>>, <<0, 1, 0, 0>>, <<0, 0, 1, 0>>, <<0, 0, 0, 1>> >>

\* Matrix4::transform_point for an affine matrix.
transform_point(m, p) ==
    Point3(m[1][1] * p.x + m[1][2] * p.y + m[1][3] * p.z + m[1][4],
           m[2][1] * p.x + m[2][2] * p.y + m[2][3] * p.z + m[2][4],
           m[3][1] * p.x + m[3][2] * p.y + m[3][3] * p.z + m[3][4])

(***************************************************************************)
(* Location                                                                *)
(***************************************************************************)
Ok(v) == [ok |-> TRUE, val |-> v]

Err(e) == [ok |-> FALSE, err |-> e]

\* Option<f64>::unwrap_or for the confidence argument; -1 stands for None.
NoneF == -1

\* A constructor that tests the longitude before the latitude.
Location_new_longitude_first(latitude, longitude, altitude, accuracy_meters, confidence_score) ==
    IF ~(longitude >= -180 /\ longitude <= 180) THEN Err("InvalidLongitude")
    ELSE IF ~(latitude >= -90 /\ latitude <= 90) THEN Err("InvalidLatitude")
    ELSE IF ~(altitude >= MIN_ALTITUDE_METERS /\ altitude <= MAX_ALTITUDE_METERS)
         THEN Err("InvalidAltitude")
    ELSE IF ~(accuracy_meters >= MIN_ACCURACY_METERS /\ accuracy_meters <= MAX_ACCURACY_METERS)
         THEN Err("InvalidAccuracy")
    ELSE Ok([latitude |-> latitude, longitude |-> longitude, altitude |-> altitude,
             accuracy_meters |-> accuracy_meters,
             confidence_score |-> IF confidence_score = NoneF
                                  THEN DEFAULT_CONFIDENCE_THRESHOLD
                                  ELSE confidence_score])

Location_new(latitude, longitude, altitude, accuracy_meters, confidence_score) ==
    IF ~(latitude >= -90 /\ latitude <= 90) THEN Err("InvalidLatitude")
    ELSE IF ~(longitude >= -180 /\ longitude <= 180) THEN Err("InvalidLongitude")
    ELSE IF ~(altitude >= MIN_ALTITUDE_METERS /\ altitude <= MAX_ALTITUDE_METERS)
         THEN Err("InvalidAltitude")
    ELSE IF ~(accuracy_meters >= MIN_ACCURACY_METERS /\ accuracy_meters <= MAX_ACCURACY_METERS)
         THEN Err("InvalidAccuracy")
    ELSE Ok([latitude |-> latitude, longitude |-> longitude, altitude |-> altitude,
             accuracy_meters |-> accuracy_meters,
             confidence_score |-> IF confidence_score = NoneF
                                  THEN DEFAULT_CONFIDENCE_THRESHOLD
                                  ELSE confidence_score])

\* Cartesian projection on the Earth-radius sphere.
to_point3(loc) ==
    Point3(EARTH_RADIUS_METERS * CosDeg(loc.latitude) * CosDeg(loc.longitude),
           EARTH_RADIUS_METERS * CosDeg(loc.latitude) * SinDeg(loc.longitude),
           EARTH_RADIUS_METERS * SinDeg(loc.latitude) + loc.altitude)

(***************************************************************************)
(* f64 lengths                                                             *)
(*                                                                         *)
(* A length of T centimetres is held by the program as the f64 nearest to  *)
(* T/100 metres, which is T/100 itself only when T/100 is a dyadic number: *)
(* 0.4 - 0.3 is 0.10000000000000003 and exceeds 0.1, 15.01 - 15.0 is       *)
(* 0.00999999999999979 and lies below 0.01.  An f64 length is modelled by  *)
(* the whole number of centimetres nearest to it (val) and by the two      *)
(* centimetre counts lo and hi whose f64 values it is the difference of;   *)
(* what the f64 exceeds val centimetres by is Fine, an integer number of   *)
(* units of 2^-61 cm, computed exactly.  Comparisons of f64 lengths are    *)
(* by val first and by Fine at equal val.                                  *)
(***************************************************************************)
\* The binary exponent e of T/100 metres (T >= 1): 2^e <= T/100 < 2^(e+1).
Binade(T) == CHOOSE e \in -7..14 : 100 * 2^(e + 7) <= 128 * T /\ 128 * T < 100 * 2^(e + 8)

\* 2^k modulo m (k <= 60, m < 2^15), by halves of the exponent.
Pow2Mod(k, m) == ((2^(k \div 2) % m) * (2^(k - k \div 2) % m)) % m

\* What the 53-bit mantissa of the f64 nearest to T/100 exceeds
\* T * 2^(52 - e) / 100 by, in hundredths of the last mantissa bit (T >= 1):
\* the remainder rho of T * 2^(52 - e) by 100 is rounded away, downwards
\* (-rho) when below 50 and upwards (100 - rho) otherwise.
MantissaError(T) ==
    50 - (((T % 100) * Pow2Mod(52 - Binade(T), 100) + 50) % 100)

\* What the f64 nearest to T/100 metres exceeds T centimetres by, in units
\* of 2^-61 cm.
Residue(T) ==
    IF T = 0 THEN 0
    ELSE (IF T < 0 THEN -1 ELSE 1) * MantissaError(Abs(T)) * 2^(Binade(Abs(T)) + 9)

\* IEEE round-to-nearest-even of T cm + D units (T >= 1, D small against a
\* centimetre): what the f64 nearest to that number exceeds T cm by.  The
\* f64 values around it are spaced one last mantissa bit apart (100 * 2^(e+9)
\* units), half a bit below a power of two, and are counted from the f64
\* nearest to T/100, whose mantissa is odd or even.  BelowBinade tells
\* whether T cm + D units lies in the binade below that of T/100 (T/100 is a
\* power of two and D is negative); NearestEven is the multiple of s nearest
\* to q, ties to the even multiple, odd0 telling whether the multiples are
\* counted from an odd mantissa.
RoundTo(T, D) ==
    LET BelowBinade == 100 * 2^(Binade(T) + 7) = 128 * T /\ D < 0
        NearestEven(q, s, odd0) ==
            IF 2 * (q % s) > s \/ (2 * (q % s) = s /\ (((q \div s) % 2 = 1) # odd0))
            THEN (q \div s + 1) * s
            ELSE (q \div s) * s
    IN Residue(T)
       + NearestEven(D - Residue(T),
                     (IF BelowBinade THEN 50 ELSE 100) * 2^(Binade(T) + 9),
                     /\ ~BelowBinade
                     /\ (((T % 200) * Pow2Mod(52 - Binade(T), 200)) + MantissaError(T)) % 200
                        = 100)

\* The f64 of a length given in the source as a number of centimetres: a
\* constant, a radius argument, a stored altitude.
F64(T) == [val |-> T, lo |-> 0, hi |-> T, surface |-> 0]

\* The f64 |hi - lo| of two stored altitudes: (alt2 - alt1).abs().
F64Diff(alt1, alt2) ==
    [val |-> Abs(alt2 - alt1), lo |-> alt1, hi |-> alt2, surface |-> 0]

(***************************************************************************)
(* Whole numbers beyond 32 bits                                            *)
(*                                                                         *)
(* The 53-bit mantissa of an f64 and its 106-bit square are held as        *)
(* sequences of limbs to the base 2^13, the least limb first.              *)
(***************************************************************************)
Limb == 2^13

RECURSIVE Carried(_, _)
\* The limbs of the number that coeffs holds with limbs of any size and
\* sign, carry added at the low end: every limb is brought into 0..2^13 - 1
\* and one more limb takes what is left over, sign included.
Carried(coeffs, carry) ==
    IF coeffs = << >> THEN << carry >>
    ELSE << (coeffs[1] + carry) % Limb >>
         \o Carried(Tail(coeffs), (coeffs[1] + carry) \div Limb)

RECURSIVE Remainder(_, _, _)
\* The remainder by d of the number made of the limbs from the k-th up.
Remainder(limbs, d, k) ==
    IF k > Len(limbs) THEN 0
    ELSE (Remainder(limbs, d, k + 1) * Limb + limbs[k]) % d

\* The limbs of the quotient by d (d <= 2^17).
Quotient(limbs, d) ==
    [k \in 1..Len(limbs) |-> (Remainder(limbs, d, k + 1) * Limb + limbs[k]) \div d]

RECURSIVE Convolved(_, _, _)
\* The sum of the products a[i] * a[k + 1 - i] from the i-th limb on.
Convolved(a, k, i) ==
    IF i > Len(a) THEN 0
    ELSE (IF k + 1 - i >= 1 /\ k + 1 - i <= Len(a) THEN a[i] * a[k + 1 - i] ELSE 0)
         + Convolved(a, k, i + 1)

\* The limbs of the square of a number of at most five limbs.
SquareLimbs(a) == Carried([k \in 1..(2 * Len(a) - 1) |-> Convolved(a, k, 1)], 0)

\* Whether the number held by carried limbs, the last of which has the
\* sign, is positive.
Positive(limbs) ==
    \/ limbs[Len(limbs)] > 0
    \/ limbs[Len(limbs)] = 0 /\ \E k \in 1..(Len(limbs) - 1) : limbs[k] > 0

(***************************************************************************)
(* f64 arithmetic                                                          *)
(*                                                                         *)
(* A non-negative f64 is a record [m, e]: the limbs of its mantissa and    *)
(* its binary exponent, the value being m * 2^e.  Products and sums are    *)
(* formed exactly and rounded to 53 bits, to the nearest and on a tie to   *)
(* the even mantissa, as the processor rounds them.                        *)
(***************************************************************************)
RECURSIVE Bits(_)
\* The number of bits of the number held by the limbs (0 has none).
Bits(limbs) ==
    IF Len(limbs) = 0 THEN 0
    ELSE IF limbs[Len(limbs)] = 0 THEN Bits(SubSeq(limbs, 1, Len(limbs) - 1))
    ELSE 13 * (Len(limbs) - 1)
         + (CHOOSE b \in 1..31 : 2^(b - 1) <= limbs[Len(limbs)]
                                  /\ (b = 31 \/ limbs[Len(limbs)] < 2^b))

\* The limbs of the number times 2^s.
Shifted(limbs, s) ==
    [k \in 1..(s \div 13) |-> 0]
    \o Carried([k \in 1..Len(limbs) |-> limbs[k] * 2^(s % 13)], 0)

\* The limbs of the number divided by 2^s, rounded down.
Chopped(limbs, s) ==
    Quotient(SubSeq(limbs, s \div 13 + 1, Len(limbs)), 2^(s % 13)) \o << >>

RECURSIVE Rounded(_)
\* The f64 nearest to x.m * 2^x.e: the mantissa is cut to 53 bits and goes up
\* when the bits cut off are more than half of its last bit, or are half of
\* it and the mantissa cut is odd.  s is the number of bits cut off, q the
\* mantissa cut and h the limb that holds the highest bit cut off.
Rounded(x) ==
    LET Up(s, q, h) ==
            IF /\ (h \div 2^((s - 1) % 13)) % 2 = 1
               /\ \/ h % 2^((s - 1) % 13) # 0
                  \/ \E k \in 1..((s - 1) \div 13) : x.m[k] # 0
                  \/ q[1] % 2 = 1
            THEN << q[1] + 1 >> \o Tail(q)
            ELSE q
        Cut(s) ==
            IF s <= 0 THEN x
            ELSE Rounded([m |-> Carried(Up(s, Chopped(x.m, s), x.m[(s - 1) \div 13 + 1]), 0),
                          e |-> x.e + s])
    IN Cut(Bits(x.m) - 53)

\* x * x and x.powi(2).
Squared(x) ==
    IF Bits(x.m) = 0 THEN x ELSE Rounded([m |-> SquareLimbs(x.m), e |-> 2 * x.e])

\* The two mantissas over the lesser of the two exponents, limb by limb.
Aligned(x, y) ==
    LET Paired(a, b) ==
            [k \in 1..Max2(Len(a), Len(b)) |->
               << IF k <= Len(a) THEN a[k] ELSE 0, IF k <= Len(b) THEN b[k] ELSE 0 >>]
    IN Paired(Shifted(x.m, IF x.e <= y.e THEN 0 ELSE x.e - y.e),
              Shifted(y.m, IF x.e <= y.e THEN y.e - x.e ELSE 0))

\* x + y.
Sum(x, y) ==
    LET Added(ab) ==
            Rounded([m |-> Carried([k \in 1..Len(ab) |-> ab[k][1] + ab[k][2]], 0),
                     e |-> IF x.e <= y.e THEN x.e ELSE y.e])
    IN IF Bits(x.m) = 0 THEN y
       ELSE IF Bits(y.m) = 0 THEN x
       ELSE Added(Aligned(x, y))

\* The greatest f64 below n * 2^e / d, for limbs n and a divisor d <= 2^17:
\* the quotient of n * 2^65 - 1 by d, cut to 53 bits.
Under(n, d, e) ==
    LET Cut(q) == [e |-> e - 65 + Bits(q) - 53, m |-> Chopped(q, Bits(q) - 53)]
        Below(N) == Cut(Quotient(Carried(<< N[1] - 1 >> \o Tail(N), 0), d) \o << >>)
    IN Below(Shifted(n, 65))

\* The f64 of a length of c centimetres (c >= 0) in metres, the literal or
\* argument c/100: the quotient of c * 2^65 by 100, with a last bit set for a
\* remainder, rounded.
Metres(c) ==
    LET Set(N, q) ==
            Rounded([m |-> IF Remainder(N, 100, 1) # 0 /\ q[1] % 2 = 0
                           THEN << q[1] + 1 >> \o Tail(q)
                           ELSE q,
                     e |-> -65])
        Divided(N) == Set(N, Quotient(N, 100) \o << >>)
    IN Divided(Shifted(Carried(<< c, 0, 0 >>, 0), 65))

\* f64::sqrt(s) <= D for f64 values s and D: the root is rounded to D or
\* below exactly when it lies below the midpoint of D and the f64 above it,
\* s < ((2 D.m + 1) * 2^(D.e - 1))^2; no root of an f64 lies on a midpoint.
\* The root of 0 is 0, and no other root is.
RootAtMost(s, D) ==
    LET Below(ab) == Positive(Carried([k \in 1..Len(ab) |-> ab[k][2] - ab[k][1]], 0))
        Less(x, y) == Below(Aligned(x, y))
    IN IF Bits(s.m) = 0 \/ Bits(D.m) = 0 THEN Bits(s.m) = 0
       ELSE Less(s, [m |-> SquareLimbs(Carried([k \in 1..Len(D.m) |->
                                                   2 * D.m[k] + (IF k = 1 THEN 1 ELSE 0)], 0)),
                     e |-> 2 * D.e - 2])

(***************************************************************************)
(* nalgebra norms                                                          *)
(***************************************************************************)
MaxAbs(p) == Max2(Abs(p.x), Max2(Abs(p.y), Abs(p.z)))

SumSq(p) == p.x * p.x + p.y * p.y + p.z * p.z

\* coords.norm_squared() of a point given in centimetres: the f64 sum
\* (x * x + y * y) + z * z of the f64 coordinates in metres.
NormSquared(p) ==
    Sum(Sum(Squared(Metres(Abs(p.x))), Squared(Metres(Abs(p.y)))),
        Squared(Metres(Abs(p.z))))

\* p.coords.norm() <= d and >= d for a bound of d centimetres (d <= 26000, so
\* that the squares stay within 32 bits).  A coordinate beyond d puts the
\* norm beyond d (the f64 root of x * x is |x|), and where the sum of squares
\* in whole centimetres differs from d * d the f64 norm lies on the same side
\* of d, rounding being of the order of 1e-16 of it.  Where they are equal
\* the norm is d when one coordinate is d and the others are 0, and else the
\* f64 values decide: the norm of (1.2, 49.92, 2.56) is 50.00000000000001.
NormAtMost(p, d) ==
    /\ MaxAbs(p) <= d
    /\ \/ SumSq(p) < d * d
       \/ SumSq(p) = d * d /\ (MaxAbs(p) = d \/ RootAtMost(NormSquared(p), Metres(d)))

NormAtLeast(p, d) ==
    LET Reaches(D) == ~RootAtMost(NormSquared(p), Under(D.m, 1, D.e))
    IN \/ MaxAbs(p) >= d
       \/ SumSq(p) > d * d
       \/ SumSq(p) = d * d /\ Reaches(Metres(d))

(***************************************************************************)
(* Surface distances below a centimetre                                    *)
(*                                                                         *)
(* The f64 of pi/2 has the cosine 6.1e-17 and the f64 of pi the sine       *)
(* 1.2e-16, not 0, so haversine_distance yields a positive distance below  *)
(* two nanometres between two longitudes of one pole and between the       *)
(* meridians of 180 and -180 degrees.  There are five such distances; a    *)
(* length record names the one under its root by its rank in size, 1 to 5, *)
(* in the field surface (0: none).  With an altitude difference z of T >=  *)
(* 1 cm the distance sqrt(s^2 + z^2) is z or lies a few f64 steps above    *)
(* z; with none it is s.  The ranks 6 to 8 name the f64 distances of a     *)
(* quarter and of half the globe.                                          *)
(***************************************************************************)
\* The f64 square s * s of the surface distance of the given rank,
\* (hi * 2^26 + lo) * 2^exp square metres:
\*   1  9.554969575338695e-26 m   one pole, longitudes 360 degrees apart
\*   2  5.517006034276327e-10 m   one pole, longitudes 90 degrees apart
\*   3  5.517006034276328e-10 m   one pole, longitudes 270 degrees apart
\*   4  7.802224757367787e-10 m   one pole, longitudes 180 degrees apart
\*   5  1.5604449514735575e-9 m   the equator, longitudes 360 degrees apart
\* and of the three distances of a quarter and of half the globe:
\*   6  10007543.398010284 m      a quarter of the globe
\*   7  10007543.398010287 m      the equator, longitudes 270 degrees apart
\*   8  20015086.79602057 m       half the globe
SurfaceSquare(surface) ==
    CASE surface = 1 -> [hi |-> 114616668, lo |-> 21043185, exp |-> -219]
      [] surface = 2 -> [hi |-> 94199052, lo |-> 61274254, exp |-> -114]
      [] surface = 3 -> [hi |-> 94199052, lo |-> 61274257, exp |-> -114]
      [] surface = 4 -> [hi |-> 94199052, lo |-> 61274256, exp |-> -113]
      [] surface = 5 -> [hi |-> 94199052, lo |-> 61274256, exp |-> -111]
      [] surface = 6 -> [hi |-> 95511364, lo |-> 54105294, exp |-> -6]
      [] surface = 7 -> [hi |-> 95511364, lo |-> 54105299, exp |-> -6]
      [] surface = 8 -> [hi |-> 95511364, lo |-> 54105296, exp |-> -4]

\* The limbs of the mantissa M of the f64 z of T cm + F units, z = M *
\* 2^(b - 52) metres with b its binary exponent (b <= -3): M is
\* (T * 2^(50 - b) + F / 2^(b + 11)) / 25.
MantissaLimbs(T, F, b) ==
    Quotient(Carried(<< F \div 2^(b + 11), 0, 0, 0, T * 2^(-2 - b) >>, 0), 25)

\* The f64 square S in last bits 2^k of the mantissa it is added to, to the
\* nearest whole number (k >= 27; none of the five squares lies half-way).
SurfaceBits(S, k) ==
    IF k >= 54 THEN 0
    ELSE (S.hi \div 2^(k - 26))
         + (IF \/ 2 * (S.hi % 2^(k - 26)) > 2^(k - 26)
               \/ 2 * (S.hi % 2^(k - 26)) = 2^(k - 26) /\ S.lo > 0
            THEN 1 ELSE 0)

\* By how many f64 steps sqrt(S + z.powi(2)) lies above z, for z of
\* mantissa M with sq the limbs of M^2, ub telling whether M^2 has reached
\* 2^105, and n as follows.  In units of the last bit of M
\* squared: z.powi(2) is M^2 rounded to 53 bits, M^2 - X or M^2 - X + U for
\* X the remainder of M^2 by its last kept bit U (2^52, or 2^53 from M^2 =
\* 2^105 on), ties to the even mantissa; adding S adds the multiple of U
\* nearest to it; and the sum Q = M^2 - X + n U has its root rounded to
\* z + i steps or more exactly when sqrt(Q) reaches the midpoint below,
\* (M + i - 1/2)^2 <= Q, that is 4 (2i - 1) M + (2i - 1)^2 + 4 X <= 4 n U.
StepsOver(M, sq, ub, n) ==
    Cardinality({ i \in 1..n :
       ~Positive(Carried(<< 4 * (2 * i - 1) * M[1] + 4 * sq[1]
                              + (2 * i - 1) * (2 * i - 1),
                            4 * (2 * i - 1) * M[2] + 4 * sq[2],
                            4 * (2 * i - 1) * M[3] + 4 * sq[3],
                            4 * (2 * i - 1) * M[4] + 4 * sq[4],
                            4 * (2 * i - 1) * M[5] + 4 * ub * (sq[5] % 2)
                              - 4 * n * 2^ub >>, 0)) })

\* Whether the rounding of M^2 to 53 bits goes up: X is past half of U, or
\* is half of it and the mantissa kept is odd.
RoundsUp(sq, ub) ==
    IF ub = 1
    THEN IF /\ sq[5] % 2 = 1
            /\ (sq[1] + sq[2] + sq[3] + sq[4] > 0 \/ (sq[5] \div 2) % 2 = 1)
         THEN 1 ELSE 0
    ELSE IF /\ sq[4] \div 4096 = 1
            /\ (sq[1] + sq[2] + sq[3] + (sq[4] % 4096) > 0 \/ sq[5] % 2 = 1)
         THEN 1 ELSE 0

StepsAt(M, sq, S, k0, ub) ==
    StepsOver(M, sq, ub, SurfaceBits(S, k0 + ub) + RoundsUp(sq, ub))

StepsFrom(M, sq, S, k0) == StepsAt(M, sq, S, k0, IF sq[9] >= 2 THEN 1 ELSE 0)

\* By how many f64 steps the root of S + z^2 lies above the altitude
\* difference z of T cm + F units (T >= 1, in binade b), for S the square of
\* a surface distance below a centimetre: none where S is below half the
\* last bit of z^2 and is lost in the sum.
StepsUp(M, b, S) ==
    IF 2 * b - 52 - S.exp >= 54 THEN 0
    ELSE StepsFrom(M, SquareLimbs(M), S, 2 * b - 52 - S.exp)

\* The altitude difference of T cm + F units under a root with the surface
\* distance of the given rank: what the root exceeds T cm by.
RootFine(T, F, b, surface) ==
    F + StepsUp(MantissaLimbs(T, F, b), b, SurfaceSquare(surface)) * 25 * 2^(b + 11)

\* What the f64 length x of one centimetre or more exceeds x.val centimetres
\* by, in units of 2^-61 cm.  FineOf is what the f64 of hi - lo, for T = hi -
\* lo centimetres and D the difference of the residues of hi and lo, exceeds
\* |T| centimetres by; lengths beyond the span of the altitudes are
\* great-circle distances, which the model keeps to the nearest centimetre.
Fine(x) ==
    LET FineOf(T, D) ==
            IF T = 0 \/ Abs(T) > MAX_ALTITUDE_METERS - MIN_ALTITUDE_METERS THEN 0
            ELSE RoundTo(Abs(T), IF T < 0 THEN -D ELSE D)
        FineUnder(F) ==
            IF x.surface = 0 \/ x.val = 0 THEN F
            ELSE RootFine(x.val, F, Binade(x.val), x.surface)
    IN FineUnder(FineOf(x.hi - x.lo, Residue(x.hi) - Residue(x.lo)))

\* x < y, x <= y and x == y of two f64 lengths; a length equals itself
\* whatever its Fine, and the lengths below half a centimetre are 0 and the
\* five surface distances, in the order of their ranks.
f64_lt(x, y) ==
    \/ x.val < y.val
    \/ /\ x.val = y.val
       /\ IF x.val = 0 THEN x.surface < y.surface
          ELSE /\ << x.lo, x.hi, x.surface >> # << y.lo, y.hi, y.surface >>
               /\ Fine(x) < Fine(y)

f64_le(x, y) == ~f64_lt(y, x)

f64_eq(x, y) ==
    /\ x.val = y.val
    /\ IF x.val = 0 THEN x.surface = y.surface
       ELSE \/ << x.lo, x.hi, x.surface >> = << y.lo, y.hi, y.surface >>
            \/ Fine(x) = Fine(y)

\* The great-circle distance between positions on multiples of 90 degrees,
\* an f64 length: 0 between equal positions, one of the five distances below
\* a centimetre where only the f64 of pi keeps the positions apart, and a
\* quarter or half of the globe otherwise (R*pi/2 = 1000754340 cm), whose f64
\* the field surface names as well: the sine of the f64 of 3*pi/4 squared is
\* not the f64 of 1/2, and two meridians of the equator 270 degrees apart lie
\* two steps of the f64 further apart than two that are 90 degrees apart.
haversine_distance(lat1, lon1, lat2, lon2) ==
    LET dot == CosDeg(lat1) * CosDeg(lon1) * CosDeg(lat2) * CosDeg(lon2)
             + CosDeg(lat1) * SinDeg(lon1) * CosDeg(lat2) * SinDeg(lon2)
             + SinDeg(lat1) * SinDeg(lat2)
        delta_lon == Abs(lon2 - lon1)
    IN CASE lat1 = lat2 /\ lon1 = lon2 -> F64(0)
         [] lat1 = lat2 /\ lat1 # 0 /\ delta_lon = 360 -> [F64(0) EXCEPT !.surface = 1]
         [] lat1 = lat2 /\ lat1 # 0 /\ delta_lon = 90 -> [F64(0) EXCEPT !.surface = 2]
         [] lat1 = lat2 /\ lat1 # 0 /\ delta_lon = 270 -> [F64(0) EXCEPT !.surface = 3]
         [] lat1 = lat2 /\ lat1 # 0 /\ delta_lon = 180 -> [F64(0) EXCEPT !.surface = 4]
         [] lat1 = 0 /\ lat2 = 0 /\ delta_lon = 360 -> [F64(0) EXCEPT !.surface = 5]
         [] lat1 = 0 /\ lat2 = 0 /\ delta_lon = 270
              -> [F64(1000754340) EXCEPT !.surface = 7]
         [] dot = 0 /\ ~(lat1 = 0 /\ lat2 = 0 /\ delta_lon = 270)
              -> [F64(1000754340) EXCEPT !.surface = 6]
         [] dot <= -1 -> [F64(2001508680) EXCEPT !.surface = 8]

RECURSIVE NearestCm(_, _, _)
\* The whole number of centimetres nearest to f64::sqrt(Q) metres, known to
\* lie from lo to hi: the greatest n whose lower half-way mark, (2 n - 1) / 200
\* metres, the root reaches.
NearestCm(Q, lo, hi) ==
    IF lo >= hi THEN lo
    ELSE LET mid == lo + (hi - lo + 1) \div 2
         IN IF RootAtMost(Q, Under(Carried(<< 2 * (mid % Limb) - 1, 2 * (mid \div Limb),
                                              0, 0 >>, 0), 200, 0))
            THEN NearestCm(Q, lo, mid - 1)
            ELSE NearestCm(Q, mid, hi)

\* (surface_distance.powi(2) + altitude_diff.powi(2)).sqrt() for a surface
\* distance of a quarter or half of the globe, to the nearest centimetre.  The
\* altitude difference of T cm + F units is the f64 (T * 2^61 + F) / 100 *
\* 2^-61 metres; the root exceeds the surface distance s by less than
\* z^2 / (2 s), which with s above 10^9 cm is below (z / 1000)^2 / 2000 cm,
\* and is the surface distance itself when the altitudes are equal.
Hypotenuse(surface_distance, altitude_diff) ==
    LET Root(S, z) ==
            IF Bits(z.m) = 0 THEN surface_distance.val
            ELSE NearestCm(Sum([m |-> Carried(<< S.lo, 0, S.hi, 0, 0 >>, 0), e |-> S.exp],
                               Squared(z)),
                           surface_distance.val - 1,
                           surface_distance.val + 2
                           + ((altitude_diff.val \div 1000 + 1)
                              * (altitude_diff.val \div 1000 + 1)) \div 2000)
    IN Root(SurfaceSquare(surface_distance.surface),
            [m |-> Quotient(Carried(<< Fine(altitude_diff), 0, 0, 0,
                                       altitude_diff.val * 2^9, 0, 0 >>, 0), 100) \o << >>,
             e |-> -61])

\* The f64 `distance` of calculate_distance: sqrt(surface^2 + altitude_diff^2).
\* On a surface distance of zero it is the altitude difference itself; on
\* one below a centimetre it is the altitude difference with that distance
\* under the root.
Distance3D(a, b) ==
    LET surface_distance == haversine_distance(a.latitude, a.longitude,
                                               b.latitude, b.longitude)
        altitude_diff == F64Diff(a.altitude, b.altitude)
    IN IF surface_distance.val = 0
       THEN [altitude_diff EXCEPT !.surface = surface_distance.surface]
       ELSE F64(Hypotenuse(surface_distance, altitude_diff))

\* Ok(distance) holds the length in centimetres in val, with the f64's
\* provenance beside it.
calculate_distance(a, b) ==
    LET Checked(distance) ==
            IF f64_lt(F64(MAX_ACCURACY_METERS), distance)
            THEN [ok |-> TRUE, val |-> distance.val, lo |-> distance.lo,
                  hi |-> distance.hi, surface |-> distance.surface]
            ELSE IF f64_lt(distance, F64(MIN_ACCURACY_METERS)) THEN Err("CalculationError")
            ELSE [ok |-> TRUE, val |-> distance.val, lo |-> distance.lo,
                  hi |-> distance.hi, surface |-> distance.surface]
    IN Checked(Distance3D(a, b))

(***************************************************************************)
(* SpatialIndex: pure parts                                                *)
(***************************************************************************)
\* The struct Point stored in the R-tree.
Point(location, id) == [location |-> location, id |-> id, confidence |-> 1000]

\* A validation that reports the point and accepts it all the same.
validate_point_accepts(point, precision_requirement) == Ok(TRUE)

validate_point(point, precision_requirement) ==
    LET point3 == to_point3(point.location)
    IN IF ~(NormAtLeast(point3, MIN_LIDAR_RANGE_METERS)
            /\ NormAtMost(point3, MAX_LIDAR_RANGE_METERS))
       THEN Err("PointValidation")
       ELSE IF NormAtMost(point3, 1000) /\ precision_requirement > PRECISION_AT_10M_CM
       THEN Err("PointValidation")
       ELSE Ok(TRUE)

\* rtree.locate_within_distance(center, r^2): the squared Euclidean distance
\* of the f64 projections, ((dx^2 + dy^2) + dz^2), is at most r^2.  Two
\* locations of the model either project a multiple of the Earth's radius
\* apart, where whole centimetres decide, or lie on one vertical, T
\* centimetres of altitude apart; there T against the radius in whole
\* centimetres decides, and at T centimetres exactly the f64 values do:
\*   - on the equator z is the stored altitude and the test is
\*     |z - center.z| <= r in f64 (squaring keeps the order of f64 lengths);
\*   - at a pole z = 6371000.0 +- altitude is rounded to a multiple of
\*     2^-30 m, by excess / 25 of that step for an altitude of 25 q + rem cm
\*     (2^28 = 25 * 10737418 + 6), so |z - center.z| lies above or below T cm
\*     by the difference of the two roundings (over); it is T cm exactly
\*     between altitudes a multiple of 25 cm apart;
\*   - the meridians of 180 and -180 degrees, one in whole centimetres, lie
\*     1.56e-9 m apart in y, and so do the longitudes of one pole by less:
\*     dy^2 = 2.4e-18 is lost in rounding from T = 18 cm on, is one step of
\*     dz^2 from 13 to 17 cm, and more below, where the model decides the
\*     test when r <= |dz| only.
locate_within_distance(point, center, radius) ==
    LET p == to_point3(point.location)
        c == to_point3(center)
        T == Abs(point.location.altitude - center.altitude)
        excess(alt) == 25 * ((12 * (alt % 25) + 25) \div 50) - 6 * (alt % 25)
        over == (IF point.location.altitude >= center.altitude THEN 1 ELSE -1)
                * (excess(point.location.altitude) - excess(center.altitude))
        pole == point.location.latitude # 0
        one_meridian == point.location.longitude = center.longitude
        dz == IF pole THEN F64(T) ELSE F64Diff(center.altitude, point.location.altitude)
    IN IF ~(p.x = c.x /\ p.y = c.y /\ point.location.latitude = center.latitude)
       THEN NormAtMost(Point3(p.x - c.x, p.y - c.y, p.z - c.z), radius.val)
       ELSE IF T # radius.val THEN T < radius.val
       ELSE CASE pole /\ over # 0 -> over < 0
              [] T = 0 /\ (pole => over = 0) -> one_meridian
              [] T >= 13 /\ T <= 17 /\ ~pole /\ ~one_meridian -> f64_lt(dz, radius)
              [] T >= 1 /\ T <= 12 /\ ~pole /\ ~one_meridian /\ ~f64_lt(dz, radius) -> FALSE
              [] T >= 1 /\ (pole => over = 0) /\ (pole \/ one_meridian \/ T >= 18)
                   -> f64_le(dz, radius)

\* 1.0 - (distance / radius_meters) in thousandths, for distance <= radius.
\* Where the quotient is three tenths in whole centimetres the f64 result is
\* MIN_CONFIDENCE_SCORE or the f64 below it: 1.0 - q rounds to 0.7 for the f64
\* quotients q up to two steps of 2^-54 above the f64 of 0.3, which is where
\* distance / radius_meters rounds to when 10 * Fine(distance) lies below
\* 3 * Fine(radius_meters) + 23 * 2^7 * radius_meters.val.
Confidence(distance, radius_meters) ==
    IF 10 * distance.val = 3 * radius_meters.val
    THEN IF Fine(distance)
              <= (2944 * radius_meters.val + 3 * Fine(radius_meters) - 1) \div 10
         THEN 700
         ELSE 699
    ELSE ((radius_meters.val - distance.val) * 1000) \div radius_meters.val

\* The body of query_radius's for loop for one entry of the tree, from the
\* results gathered so far.
QueryVisit(point, center, radius_meters, results) ==
    IF ~locate_within_distance(point, center, radius_meters)
    THEN Ok(results)
    ELSE IF Len(results) >= MAX_POINTS_PER_QUERY THEN Err("QueryLimit")
    ELSE LET distance == calculate_distance(point.location, center)
         IN IF ~distance.ok THEN Err(distance.err)
            ELSE IF f64_le(distance, radius_meters)
            THEN Ok(Append(results,
                           [location |-> point.location, id |-> point.id,
                            confidence |-> Confidence(distance, radius_meters)]))
            ELSE Ok(results)

RECURSIVE QueryLoop(_, _, _, _)
\* query_radius's for loop over the tree's entries, in storage order, from
\* the outcome so far: an error ends the loop.  The entries are walked as
\* first half, then second half.
QueryLoop(entries, center, radius_meters, sofar) ==
    IF ~sofar.ok \/ entries = << >> THEN sofar
    ELSE IF Len(entries) = 1
    THEN QueryVisit(entries[1], center, radius_meters, sofar.val)
    ELSE LET half == Len(entries) \div 2
             first == QueryLoop(SubSeq(entries, 1, half), center, radius_meters, sofar)
         IN QueryLoop(SubSeq(entries, half + 1, Len(entries)), center, radius_meters, first)

\* A radius check that lets 50.01 m through.
ExceedsLidarRange_off_by_one(radius_meters) ==
    f64_lt(F64(MAX_LIDAR_RANGE_METERS + 1), radius_meters)

\* The radius check at the head of query_radius.
ExceedsLidarRange(radius_meters) == f64_lt(F64(MAX_LIDAR_RANGE_METERS), radius_meters)

\* query_radius on a tree whose read hold is held.
query_radius(entries, center, radius_meters) ==
    IF ExceedsLidarRange(radius_meters) THEN Err("QueryLimit")
    ELSE QueryLoop(entries, center, radius_meters, Ok(<< >>))

(***************************************************************************)
(* LiDARProcessor and ProximityService: pure parts                         *)
(***************************************************************************)
\* A range check without the upper end.
validate_scan_range_no_max(range_meters) ==
    IF f64_lt(range_meters, F64(MIN_SCAN_RANGE_METERS))
    THEN Err("InvalidScanRange")
    ELSE Ok(TRUE)

\* validate_scan_range of the LiDAR processor: the range from 0.5 m to 50 m.
validate_scan_range(range_meters) ==
    IF f64_lt(range_meters, F64(MIN_SCAN_RANGE_METERS))
       \/ f64_lt(F64(MAX_SCAN_RANGE_METERS), range_meters)
    THEN Err("InvalidScanRange")
    ELSE Ok(TRUE)

\* A radius check that accepts every radius.
validate_discovery_radius_accepts(radius_meters) == Ok(TRUE)

validate_discovery_radius(radius_meters) ==
    IF f64_lt(radius_meters, F64(MIN_INTERACTION_DISTANCE_METERS))
       \/ f64_lt(F64(DEFAULT_DISCOVERY_RADIUS_METERS), radius_meters)
    THEN Err("InvalidRadius")
    ELSE Ok(TRUE)

\* A scan frame is a sequence of runs [p, n]: n consecutive copies of point p;
\* Vec::len of the points and of the points kept counts the copies.
RECURSIVE FrameLen(_)
FrameLen(frame) ==
    IF frame = << >> THEN 0 ELSE Head(frame).n + FrameLen(Tail(frame))

\* A range test that leaves out both bounds.
InScanRange_exclusive(p, scan_range_meters) ==
    ~NormAtMost(p, MIN_SCAN_RANGE_METERS) /\ ~NormAtLeast(p, scan_range_meters)

\* The filter closure of process_point_cloud on a transformed point.
InScanRange(p, scan_range_meters) ==
    NormAtLeast(p, MIN_SCAN_RANGE_METERS) /\ NormAtMost(p, scan_range_meters)

RECURSIVE FilterFrame(_, _, _)
\* The chunked transform-and-filter loop: every point is transformed and
\* kept or dropped on its own, so chunk boundaries do not show in the result.
FilterFrame(frame, matrix, scan_range_meters) ==
    IF frame = << >> THEN << >>
    ELSE LET p == transform_point(matrix, Head(frame).p)
             rest == FilterFrame(Tail(frame), matrix, scan_range_meters)
         IN IF InScanRange(p, scan_range_meters)
            THEN << [p |-> p, n |-> Head(frame).n] >> \o rest
            ELSE rest

\* The synthetic Location process_point_cloud derives from a kept point.
SyntheticLocation(point, confidence_threshold) ==
    Location_new(Atan2Deg(point.x, point.y),
                 Atan2Deg(point.z, ISqrt(point.x * point.x + point.y * point.y,
                                         Max2(Abs(point.x), Abs(point.y)))),
                 ISqrt(SumSq(point), MaxAbs(point)),
                 100,
                 confidence_threshold)

\* calculate_distance(..).unwrap_or(f64::MAX) of the closures; f64::MAX is
\* the greatest length of the model, 2147483647 cm.
DistanceOrMax(a, b) ==
    LET d == calculate_distance(a, b) IN IF d.ok THEN d ELSE F64(2147483647)

\* The retain closure of the discovery calls.
RetainCandidate(cand, env_points, radius) ==
    /\ cand.confidence >= MIN_CONFIDENCE_SCORE
    /\ \E k \in 1..Len(env_points) :
          f64_le(DistanceOrMax(cand.location, env_points[k].location), radius)

\* Vec::retain: the candidates the closure keeps, in their order.
Retain(cands, env_points, radius) ==
    SelectSeq(cands, LAMBDA cand : RetainCandidate(cand, env_points, radius))

\* The sort_by comparator on (dist1, conf1) and (dist2, conf2): Less when
\* the first sorts strictly before the second.
SortsBefore(dist1, conf1, dist2, conf2) ==
    f64_lt(dist1, dist2) \/ (f64_eq(dist1, dist2) /\ conf2 < conf1)

\* Vec::sort_by is stable: element k of the outcome is the element with k - 1
\* elements before it, where an element comes before another when it
\* compares Less, or compares Equal and stands earlier in the list.
SortByDistance(list, center) ==
    LET n == Len(list)
        dist == [k \in 1..n |-> DistanceOrMax(center, list[k].location)] \o << >>
        Precedes(j, k) ==
            \/ SortsBefore(dist[j], list[j].confidence, dist[k], list[k].confidence)
            \/ /\ ~SortsBefore(dist[k], list[k].confidence, dist[j], list[j].confidence)
               /\ j < k
        rank == [k \in 1..n |-> 1 + Cardinality({ j \in 1..n : Precedes(j, k) })] \o << >>
    IN [i \in 1..n |-> list[CHOOSE k \in 1..n : rank[k] = i]] \o << >>

\* Vec::truncate.
Truncate(list, n) == IF Len(list) <= n THEN list ELSE SubSeq(list, 1, n)

\* Filter, sort and truncate of discover_nearby_users / discover_nearby_tags.
RankCandidates(cands, env_points, center, radius) ==
    Truncate(SortByDistance(Retain(cands, env_points, radius), center),
             MAX_RESULTS_PER_QUERY)

RECURSIVE FoldMaxConfidence_from_one(_, _, _, _)
\* A fold that starts from confidence 1.
FoldMaxConfidence_from_one(env_points, location1, location2, distance) ==
    IF env_points = << >> THEN 1000
    ELSE LET e == Head(env_points)
             rest == FoldMaxConfidence_from_one(Tail(env_points), location1, location2,
                                                distance)
         IN IF f64_le(DistanceOrMax(location1, e.location), distance)
               /\ f64_le(DistanceOrMax(location2, e.location), distance)
            THEN Max2(e.confidence, rest)
            ELSE rest

RECURSIVE FoldMaxConfidence(_, _, _, _)
\* The filter/map/fold of check_interaction_possible.
FoldMaxConfidence(env_points, location1, location2, distance) ==
    IF env_points = << >> THEN 0
    ELSE LET e == Head(env_points)
             rest == FoldMaxConfidence(Tail(env_points), location1, location2, distance)
         IN IF f64_le(DistanceOrMax(location1, e.location), distance)
               /\ f64_le(DistanceOrMax(location2, e.location), distance)
            THEN Max2(e.confidence, rest)
            ELSE rest

(***************************************************************************)
(* Inputs                                                                  *)
(***************************************************************************)
\* Frames of up to MaxRuns runs, a run being one scan point repeated once or
\* MAX_POINTS_PER_SCAN times.  The scan points lie on the coordinate axes:
\* 1 m ahead, 1 m on the negative y axis (its synthetic latitude is 180
\* degrees), 0.49 m (below the range) and 50.01 m (beyond it).
Frames ==
    UNION { [1..k -> [p : { Point3(100, 0, 0), Point3(0, -100, 0), Point3(0, 0, 49),
                            Point3(0, 5001, 0) },
                      n : { 1, MAX_POINTS_PER_SCAN }]] : k \in 0..MaxRuns }

\* Locations at latitude 0, longitude 0 and altitudes 0 m, 0.3 m and 1 m.
LocationAt(altitude) == Location_new(0, 0, altitude, 100, NoneF).val

Centers == { LocationAt(0), LocationAt(30), LocationAt(100) }

\* Radius arguments: absent, and the values at and around both ends of
\* [0.5, 50].
RadiusInputs == { NoneF, 49, 50, 5000, 5001 }

(***************************************************************************)
(* State                                                                   *)
(***************************************************************************)
VARIABLES
    wiring,      \* which construction built the components: "facade"
                 \* (SpatialEngine::new), "server" (run_server) or "index"
                 \* (one SpatialIndex shared by its callers)
    battery,     \* HealthMonitor.battery_level
    lastHealth,  \* HealthMonitor.last_health_check: "new" or "check_health"
    shutdownPc,  \* SpatialEngine::shutdown: "idle", "sleeping" or "done"
    sleepFired,  \* the sleep of shutdown has run its full duration
    procMutex,   \* owner of the facade's Mutex<LiDARProcessor>
    idxMutex,    \* owner of each Mutex<SpatialIndex>
    rw,          \* each SpatialIndex.rtree RwLock: [readers, writer]
    rtree,       \* each index's entries, in storage order
    metrics,     \* the processor's Metrics
    srvMutex,    \* owner of the server's Mutex<MetricsCollector>
    waiters,     \* the calls queued at each lock, the one that has waited
                 \* longest first: proc, srv, idx[i] (Mutexes), rw[i] (RwLock)
    srv,         \* the server's MetricsCollector
    task         \* the calls in progress, one per task

vars == << wiring, battery, lastHealth, shutdownPc, sleepFired, procMutex, idxMutex,
           rw, rtree, metrics, srvMutex, waiters, srv, task >>

Indexes == 1..3

\* The index behind each role.  SpatialEngine::new hands one index to the
\* processor and, twice, to the proximity service; run_server builds three.
IndexOf(role) ==
    IF wiring = "server"
    THEN CASE role = "env" -> 1 [] role = "user" -> 2 [] role = "tag" -> 3
    ELSE 1

\* The processor's configuration under each construction.
ScanRange == MAX_SCAN_RANGE_METERS

ConfidenceThreshold == IF wiring = "facade" THEN DEFAULT_CONFIDENCE_THRESHOLD
                       ELSE MIN_CONFIDENCE_THRESHOLD

ScanOps == { "process_scan", "process_lidar_scan", "process_point_cloud" }

FacadeOps == { "process_scan", "discover_nearby_users" }

ServerOps == { "process_lidar_scan", "get_nearby_points" }

\* The task stream_proximity_updates spawns: one get_nearby_points per message.
StreamOps == { "stream_proximity_updates" }

\* Operations that run a handler of the server.
HandlerOps == ServerOps \cup StreamOps

DiscoverOps == { "discover_nearby_users", "discover_nearby_tags", "get_nearby_points" }

\* The operations a caller can start under each construction.
OpsOf(w) ==
    CASE w = "facade" -> FacadeOps \cup { "discover_nearby_tags", "check_interaction_possible" }
      [] w = "server" -> ServerOps \cup { "discover_nearby_tags", "check_interaction_possible" }
      [] w = "index" -> { "insert", "query_radius", "optimize_index" }

\* The first step of each operation.  process_scan and discover_nearby_users
\* of the facade begin with check_health; where run_server built the
\* components there is no facade and discover_nearby_users is the
\* ProximityService's own, which begins at its radius check as
\* discover_nearby_tags does.
FirstPc(o) ==
    CASE o \in FacadeOps /\ wiring = "facade" -> "health"
      [] o \in ServerOps -> "admit"
      [] o = "discover_nearby_users" /\ wiring # "facade" -> "disc"
      [] o = "discover_nearby_tags" -> "disc"
      [] o = "check_interaction_possible" -> "check"
      [] o = "insert" -> "ins"
      [] o = "query_radius" -> "query"
      [] o = "optimize_index" -> "opt"
      [] o = "Location_new" -> "new"
      [] o \in StreamOps -> "recv"
      [] o = "process_point_cloud" -> "ppc"
      [] o = "calculate_distance" -> "dist"

EntityRole(o) == IF o = "discover_nearby_tags" THEN "tag" ELSE "user"

\* A call: its position (pc), operation, result, whether it started after
\* shutdown() was called (late), and the locals of the operation: the frame
\* length (n), the kept points still to insert (pts), the number of loop
\* iterations completed (cursor), the suspension point at which its future
\* was dropped (at), the query arguments, the environment
\* snapshot (env), the value returned (out) and, beside a map returned, the
\* frame it was made from (frame).
IdleTask == [pc |-> "idle", op |-> "none", res |-> "none", late |-> FALSE,
             n |-> 0, pts |-> << >>, cursor |-> 0, at |-> "none",
             center |-> LocationAt(0), other |-> LocationAt(0),
             radius |-> 0, env |-> << >>, out |-> << >>, args |-> << >>,
             frame |-> << >>, requests |-> 0, responses |-> << >>]

InitCommon ==
    /\ battery = INITIAL_BATTERY_LEVEL
    /\ lastHealth = "new"
    /\ shutdownPc = "idle"
    /\ sleepFired = FALSE
    /\ procMutex = NoTask
    /\ idxMutex = [i \in Indexes |-> NoTask]
    /\ rw = [i \in Indexes |-> [readers |-> {}, writer |-> NoTask]]
    /\ rtree = [i \in Indexes |-> << >>]
    /\ metrics = [points_processed |-> 0, processing_time_ms |-> 0]
    /\ srvMutex = NoTask
    /\ waiters = [proc |-> << >>, srv |-> << >>, idx |-> [i \in Indexes |-> << >>],
                  rw |-> [i \in Indexes |-> << >>]]
    /\ srv = [requests_total |-> 0, active_connections |-> 0, processing_times_ms |-> << >>]
    /\ task = [t \in Tasks |-> IdleTask]

Init == wiring \in { "facade", "server" } /\ InitCommon

InitIndex == wiring = "index" /\ InitCommon

(***************************************************************************)
(* Returning from a call                                                   *)
(***************************************************************************)
\* tokio's Mutex is fair: a guard that is dropped passes the Mutex to the call
\* that has waited longest, before that call runs again; a call that is
\* dropped while it waits leaves the queue.  The Mutex of owner and queue
\* after call t has let go of it.
Released(owner, queue, t) ==
    IF owner = t
    THEN IF queue = << >> THEN [owner |-> NoTask, queue |-> queue]
         ELSE [owner |-> Head(queue), queue |-> Tail(queue)]
    ELSE [owner |-> owner, queue |-> SelectSeq(queue, LAMBDA u : u # t)]

RECURSIVE Granted(_, _)
\* tokio's RwLock is fair as well: holds are granted from the head of the
\* queue, read holds while no write hold is held and a write hold once no hold
\* is left; what the head cannot have, the requests behind it wait for too.
Granted(lock, queue) ==
    IF queue = << >> \/ lock.writer # NoTask THEN [lock |-> lock, queue |-> queue]
    ELSE IF ~Head(queue).write
    THEN Granted([lock EXCEPT !.readers = @ \cup { Head(queue).t }], Tail(queue))
    ELSE IF lock.readers = {}
    THEN [lock |-> [lock EXCEPT !.writer = Head(queue).t], queue |-> Tail(queue)]
    ELSE [lock |-> lock, queue |-> queue]

\* The RwLock of lock and queue after call t has let go of it.
ReleasedHolds(lock, queue, t) ==
    Granted([readers |-> lock.readers \ {t},
             writer |-> IF lock.writer = t THEN NoTask ELSE lock.writer],
            SelectSeq(queue, LAMBDA w : w.t # t))

\* The guards a returning (or dropped) call holds go out of scope.
\* A return that leaks the guard of the processor's Mutex.
DropGuards_keeps_processor(t) ==
    LET Passed(proc, srvr, idx, holds) ==
            /\ procMutex' = procMutex
            /\ idxMutex' = [i \in Indexes |-> idx[i].owner]
            /\ rw' = [i \in Indexes |-> holds[i].lock]
            /\ srvMutex' = srvr.owner
            /\ waiters' = [proc |-> waiters.proc, srv |-> srvr.queue,
                           idx |-> [i \in Indexes |-> idx[i].queue],
                           rw |-> [i \in Indexes |-> holds[i].queue]]
    IN Passed(Released(procMutex, waiters.proc, t), Released(srvMutex, waiters.srv, t),
              [i \in Indexes |-> Released(idxMutex[i], waiters.idx[i], t)],
              [i \in Indexes |-> ReleasedHolds(rw[i], waiters.rw[i], t)])

DropGuards(t) ==
    LET Passed(proc, srvr, idx, holds) ==
            /\ procMutex' = proc.owner
            /\ idxMutex' = [i \in Indexes |-> idx[i].owner]
            /\ rw' = [i \in Indexes |-> holds[i].lock]
            /\ srvMutex' = srvr.owner
            /\ waiters' = [proc |-> proc.queue, srv |-> srvr.queue,
                           idx |-> [i \in Indexes |-> idx[i].queue],
                           rw |-> [i \in Indexes |-> holds[i].queue]]
    IN Passed(Released(procMutex, waiters.proc, t), Released(srvMutex, waiters.srv, t),
              [i \in Indexes |-> Released(idxMutex[i], waiters.idx[i], t)],
              [i \in Indexes |-> ReleasedHolds(rw[i], waiters.rw[i], t)])

\* The Ok arm of the server handlers' match.
ServerOkArm(t) ==
    IF task[t].op \in HandlerOps
    THEN \E e \in 1..MaxElapsedMs :
            srv' = [srv EXCEPT !.processing_times_ms = Append(@, e),
                               !.active_connections = @ - 1]
    ELSE UNCHANGED srv

\* A write hold granted beside read holds.
CanWrite_ignores_readers(i) == rw[i].writer = NoTask

\* self.rtree.write().await completes at once: no read hold, no write hold
\* and no request waiting.
CanWrite(i) == rw[i].writer = NoTask /\ rw[i].readers = {} /\ waiters.rw[i] = << >>

\* A read hold granted beside a write hold.
CanRead_beside_writer(i) == TRUE

\* self.rtree.read().await completes at once: no write hold and no request
\* waiting (a write request that waits keeps later read requests behind it).
CanRead(i) == rw[i].writer = NoTask /\ waiters.rw[i] = << >>

\* A call that has returned: its locals are gone, its result stays.  In the
\* task of a stream the call is the get_nearby_points of the current message:
\* `let response = self.get_nearby_points(..).await?` goes on to tx.send with
\* the response of an Ok, and ends the task on an error.
Finished(call, res, out) ==
    IF call.op \in StreamOps
    THEN IF res = "Ok"
         THEN [IdleTask EXCEPT !.pc = "send", !.op = call.op, !.late = call.late,
                               !.requests = call.requests,
                               !.responses = call.responses]
         ELSE [IdleTask EXCEPT !.pc = "done", !.op = call.op, !.late = call.late,
                               !.res = res, !.requests = call.requests,
                               !.responses = call.responses]
    ELSE [IdleTask EXCEPT !.pc = "done", !.op = call.op, !.late = call.late, !.n = call.n,
                          !.cursor = call.cursor, !.res = res, !.out = out]

\* The call of task t returns res (and the value out).
Return(t, res, out) ==
    /\ task' = [task EXCEPT ![t] = Finished(task[t], res, out)]
    /\ DropGuards(t)
    /\ IF res = "Ok" THEN ServerOkArm(t) ELSE UNCHANGED srv

\* An error that is dropped: the call goes on with the points left.
ReturnGiven_goes_on(t, arguments, res, out) ==
    /\ task' = [task EXCEPT ![t].pts = IF @ = << >> THEN @ ELSE Tail(@)]
    /\ UNCHANGED << procMutex, idxMutex, rw, srvMutex, waiters, srv >>

\* A call returns early; the finished call keeps the values named: the
\* arguments it was given, or the id it generated for the point it failed on.
ReturnGiven(t, arguments, res, out) ==
    /\ task' = [task EXCEPT ![t] = [Finished(task[t], res, out)
                                       EXCEPT !.args = arguments]]
    /\ DropGuards(t)
    /\ IF res = "Ok" THEN ServerOkArm(t) ELSE UNCHANGED srv

\* A call on the pair of locations a, b returns before it has queried
\* anything; the finished call keeps the pair it was given.
ReturnOf(t, a, b, res, out) ==
    /\ task' = [task EXCEPT ![t] = [Finished(task[t], res, out)
                                       EXCEPT !.center = a, !.other = b]]
    /\ DropGuards(t)
    /\ IF res = "Ok" THEN ServerOkArm(t) ELSE UNCHANGED srv

(***************************************************************************)
(* Environment of the facade: telemetry and shutdown                       *)
(***************************************************************************)
\* The battery telemetry writes a new reading into HealthMonitor.battery_level.
BatteryTelemetry ==
    /\ wiring = "facade"
    /\ \E b \in { 14, 15, INITIAL_BATTERY_LEVEL } \ {battery} : battery' = b
    /\ UNCHANGED << wiring, lastHealth, shutdownPc, sleepFired, procMutex, idxMutex,
                    rw, rtree, metrics, srvMutex, waiters, srv, task >>

\* shutdown() is called: it records the start and goes to sleep for the
\* configured graceful_shutdown_timeout.
ShutdownStart ==
    /\ wiring = "facade"
    /\ shutdownPc = "idle"
    /\ shutdownPc' = "sleeping"
    /\ UNCHANGED << wiring, battery, lastHealth, sleepFired, procMutex, idxMutex,
                    rw, rtree, metrics, srvMutex, waiters, srv, task >>

\* The graceful_shutdown_timeout has elapsed.
GraceTimerFires ==
    /\ shutdownPc = "sleeping"
    /\ ~sleepFired
    /\ sleepFired' = TRUE
    /\ UNCHANGED << wiring, battery, lastHealth, shutdownPc, procMutex, idxMutex,
                    rw, rtree, metrics, srvMutex, waiters, srv, task >>

\* The sleep is over: shutdown() logs and returns Ok.
ShutdownReturn ==
    /\ shutdownPc = "sleeping"
    /\ sleepFired
    /\ shutdownPc' = "done"
    /\ UNCHANGED << wiring, battery, lastHealth, sleepFired, procMutex, idxMutex,
                    rw, rtree, metrics, srvMutex, waiters, srv, task >>

(***************************************************************************)
(* Starting a call                                                         *)
(***************************************************************************)
\* A caller starts operation o on task t.  Tasks are interchangeable, so
\* they start in index order.
Start(t, ops) ==
    /\ task[t].pc = "idle"
    /\ IF t = 1 THEN TRUE ELSE task[t - 1].pc # "idle"
    /\ \E o \in ops :
          task' = [task EXCEPT ![t].op = o, ![t].pc = FirstPc(o),
                               ![t].late = (shutdownPc # "idle")]
    /\ UNCHANGED << wiring, battery, lastHealth, shutdownPc, sleepFired, procMutex,
                    idxMutex, rw, rtree, metrics, srvMutex, waiters, srv >>

\* A gate set one percent too low.
BatteryCritical_below_14(battery_level) == battery_level < MIN_BATTERY_LEVEL - 1

\* The battery gate of check_health.
BatteryCritical(battery_level) == battery_level < MIN_BATTERY_LEVEL

\* check_health at the head of process_scan and discover_nearby_users.
CheckHealth(t) ==
    /\ task[t].pc = "health"
    /\ IF BatteryCritical(battery)
       THEN /\ Return(t, "BatteryCritical", << >>)
            /\ UNCHANGED lastHealth
       ELSE /\ lastHealth' = "check_health"
            /\ task' = [task EXCEPT ![t].pc = IF task[t].op = "process_scan"
                                              THEN "proc_lock" ELSE "disc"]
            /\ UNCHANGED << procMutex, idxMutex, rw, srvMutex, waiters, srv >>
    /\ UNCHANGED << wiring, battery, shutdownPc, sleepFired, rtree, metrics >>

\* process_scan: self.lidar_processor.lock().await.  The call takes the Mutex
\* when it is free, or joins the queue and goes on when a release has passed
\* the Mutex to it.
ProcessorLock(t) ==
    /\ task[t].pc = "proc_lock"
    /\ IF procMutex \in { NoTask, t }
       THEN /\ procMutex' = t
            /\ task' = [task EXCEPT ![t].pc = "ppc"]
            /\ UNCHANGED waiters
       ELSE /\ \A k \in 1..Len(waiters.proc) : waiters.proc[k] # t
            /\ waiters' = [waiters EXCEPT !.proc = Append(@, t)]
            /\ UNCHANGED << procMutex, task >>
    /\ UNCHANGED << wiring, battery, lastHealth, shutdownPc, sleepFired, idxMutex,
                    rw, rtree, metrics, srvMutex, srv >>

\* The rate limiter check at the head of both server handlers.
ServerAdmit(t) ==
    /\ task[t].pc = "admit"
    /\ \E allowed \in BOOLEAN :
          IF allowed
          THEN /\ task' = [task EXCEPT ![t].pc = "srv_lock"]
               /\ UNCHANGED << procMutex, idxMutex, rw, srvMutex, waiters, srv >>
          ELSE Return(t, "RateLimited", << >>)
    /\ UNCHANGED << wiring, battery, lastHealth, shutdownPc, sleepFired, rtree, metrics >>

\* self.metrics.lock().await and the two counters; the guard lives until the
\* handler returns.  The handler takes the Mutex when it is free, or joins the
\* queue and goes on when a release has passed the Mutex to it.
ServerMetricsLock(t) ==
    /\ task[t].pc = "srv_lock"
    /\ IF srvMutex \in { NoTask, t }
       THEN /\ srvMutex' = t
            /\ srv' = [srv EXCEPT !.requests_total = @ + 1, !.active_connections = @ + 1]
            /\ task' = [task EXCEPT ![t].pc = IF task[t].op = "process_lidar_scan"
                                              THEN "ppc" ELSE "disc"]
            /\ UNCHANGED waiters
       ELSE /\ \A k \in 1..Len(waiters.srv) : waiters.srv[k] # t
            /\ waiters' = [waiters EXCEPT !.srv = Append(@, t)]
            /\ UNCHANGED << srvMutex, srv, task >>
    /\ UNCHANGED << wiring, battery, lastHealth, shutdownPc, sleepFired, procMutex,
                    idxMutex, rw, rtree, metrics >>

(***************************************************************************)
(* LiDARProcessor::process_point_cloud                                     *)
(***************************************************************************)
\* In the actions a local the code computes once is bound by \E over a
\* one-element set, which makes its value be computed once.
\* A size check that lets one point too many through.
ExceedsScanLimit_off_by_one(len) == len > MAX_POINTS_PER_SCAN + 1

\* The size check at the head of process_point_cloud.
ExceedsScanLimit(len) == len > MAX_POINTS_PER_SCAN

\* The head of process_point_cloud: the size check and the transform and
\* filter loop.  The frame is the caller's argument; nothing reads it before
\* this step, so it is drawn here.
ProcessPointCloud(t, frames) ==
    /\ task[t].pc = "ppc"
    /\ \E frame \in frames :
          IF ExceedsScanLimit(FrameLen(frame))
          THEN /\ task' = [task EXCEPT ![t] = [Finished(task[t], "ExcessivePointCloud", << >>)
                                                 EXCEPT !.n = FrameLen(frame)]]
               /\ DropGuards(t)
          ELSE /\ task' = [task EXCEPT
                              ![t].pc = "env_lock", ![t].n = FrameLen(frame),
                              ![t].args = << frame >>,
                              ![t].pts = FilterFrame(frame, IdentityMatrix, ScanRange),
                              ![t].out = FilterFrame(frame, IdentityMatrix, ScanRange)]
               /\ UNCHANGED << procMutex, idxMutex, rw, srvMutex, waiters >>
    /\ UNCHANGED << wiring, battery, lastHealth, shutdownPc, sleepFired, rtree,
                    metrics, srv >>

ProcessPointCloudBegin(t) == ProcessPointCloud(t, Frames)

\* A Mutex that is handed out while another call holds it.
try_lock_for_granted(i) == TRUE

\* index.try_lock_for(timeout) returns the guard: no call holds the Mutex of
\* index i.
try_lock_for(i) == idxMutex[i] = NoTask

\* self.environment_index.try_lock_for(..) succeeds, in process_point_cloud
\* and in query_environment.
EnvLock(t) ==
    /\ task[t].pc = "env_lock"
    /\ try_lock_for(IndexOf("env"))
    /\ idxMutex' = [idxMutex EXCEPT ![IndexOf("env")] = t]
    /\ task' = [task EXCEPT ![t].pc = IF task[t].op \in ScanOps THEN "insert" ELSE "qe"]
    /\ UNCHANGED << wiring, battery, lastHealth, shutdownPc, sleepFired, procMutex,
                    rw, rtree, metrics, srvMutex, waiters, srv >>

\* A mapping that reports every timed-out acquisition as Processing.
LockTimeoutError_processing(pc, o) == "Processing"

\* The error a try_lock_for that ran out of time maps to: query_environment's
\* LockTimeout reaches the proximity caller as Processing.
LockTimeoutError(pc, o) ==
    IF pc = "env_lock" /\ o \notin ScanOps THEN "Processing" ELSE "LockTimeout"

\* try_lock_for gives up: the Mutex stayed with another call for the whole
\* LOCK_TIMEOUT_MS (environment index) or LOCK_TIMEOUT_SECONDS (entity index).
LockTimeout(t) ==
    /\ task[t].pc \in { "env_lock", "entity_lock" }
    /\ idxMutex[IF task[t].pc = "env_lock" THEN IndexOf("env")
                ELSE IndexOf(EntityRole(task[t].op))] # NoTask
    /\ Return(t, LockTimeoutError(task[t].pc, task[t].op), << >>)
    /\ UNCHANGED << wiring, battery, lastHealth, shutdownPc, sleepFired, rtree, metrics >>

\* `for point in processed_points.iter()`: the loop takes the first of the
\* points left.
NextRun(pts) == Head(pts)

\* One iteration of the insertion loop: the synthetic Location, then
\* SpatialIndex::insert (validate_point, the write hold, rtree.insert).
InsertPoint(t) ==
    /\ task[t].pc = "insert"
    /\ task[t].pts # << >>
    /\ LET run == NextRun(task[t].pts)
           rest == IF run.n = 1 THEN Tail(task[t].pts)
                   ELSE << [p |-> run.p, n |-> run.n - 1] >> \o Tail(task[t].pts)
           env == IndexOf("env")
       IN \E location \in { SyntheticLocation(run.p, ConfidenceThreshold) } :
          IF ~location.ok
          THEN Return(t, location.err, << >>) /\ UNCHANGED rtree
          ELSE \E nanos \in 0..MaxNanos :
                 \E point \in { Point(location.val, nanos) } :
                 \E valid \in { validate_point(point, PRECISION_AT_10M_CM) } :
                    IF ~valid.ok
                    THEN ReturnGiven(t, << nanos >>, valid.err, << >>) /\ UNCHANGED rtree
                    ELSE /\ CanWrite(env)
                         /\ rtree' = [rtree EXCEPT ![env] = Append(@, point)]
                         /\ task' = [task EXCEPT ![t].pts = rest, ![t].cursor = @ + 1]
                         /\ UNCHANGED << procMutex, idxMutex, rw, srvMutex, waiters, srv >>
    /\ UNCHANGED << wiring, battery, lastHealth, shutdownPc, sleepFired, metrics >>

\* The loop is over: processing_time_ms.write().await is granted and the
\* elapsed time stored; the call goes on to points_processed.write().await
\* with the guard of the first metric and the index guard still held.
WriteProcessingTime(t) ==
    /\ task[t].pc = "insert"
    /\ task[t].pts = << >>
    /\ \E e \in 1..MaxElapsedMs :
          metrics' = [metrics EXCEPT !.processing_time_ms = e]
    /\ task' = [task EXCEPT ![t].pc = "points_metric"]
    /\ UNCHANGED << wiring, battery, lastHealth, shutdownPc, sleepFired, procMutex,
                    idxMutex, rw, rtree, srvMutex, waiters, srv >>

\* points_processed.write().await is granted: the count is added and the
\* EnvironmentMap returned.
FinishScan(t) ==
    /\ task[t].pc = "points_metric"
    /\ metrics' = [metrics EXCEPT
                     !.points_processed = @ + FrameLen(task[t].out)]
    /\ task' = [task EXCEPT ![t] = [Finished(task[t], "Ok", task[t].out)
                                       EXCEPT !.frame = task[t].args[1]]]
    /\ DropGuards(t)
    /\ ServerOkArm(t)
    /\ UNCHANGED << wiring, battery, lastHealth, shutdownPc, sleepFired, rtree >>

(***************************************************************************)
(* ProximityService                                                        *)
(***************************************************************************)
\* The f64 radius of a call's queries.  A discovery call's radius is its
\* argument; check_interaction_possible's is the distance it computed between
\* its two locations, of which the call record keeps the centimetres.
RadiusOf(call) ==
    IF call.op = "check_interaction_possible"
    THEN Distance3D(call.center, call.other)
    ELSE F64(call.radius)

\* The head of a discovery call: the radius default and check, then the head
\* of query_environment (its own range check; to_point3 cannot fail).
DiscoverBegin(t) ==
    /\ task[t].pc = "disc"
    /\ \E c \in Centers, r \in RadiusInputs :
          LET radius == IF r = NoneF THEN DEFAULT_DISCOVERY_RADIUS_METERS ELSE r
          IN IF ~validate_discovery_radius(F64(radius)).ok
             THEN ReturnGiven(t, << r >>, "InvalidRadius", << >>)
             ELSE IF ~validate_scan_range(F64(radius)).ok
             THEN ReturnGiven(t, << r >>, "Processing", << >>)
             ELSE /\ task' = [task EXCEPT ![t].pc = "env_lock", ![t].center = c,
                                          ![t].radius = radius, ![t].args = << r >>]
                  /\ UNCHANGED << procMutex, idxMutex, rw, srvMutex, waiters, srv >>
    /\ UNCHANGED << wiring, battery, lastHealth, shutdownPc, sleepFired, rtree, metrics >>

\* The head of check_interaction_possible, up to the environment query.
CheckInteraction(t, locations) ==
    /\ task[t].pc = "check"
    /\ \E a \in locations, b \in locations :
          \E distance \in { calculate_distance(a, b) } :
             IF ~distance.ok
             THEN ReturnOf(t, a, b, distance.err, << >>)
             ELSE IF f64_lt(distance, F64(MIN_INTERACTION_DISTANCE_METERS))
             THEN ReturnOf(t, a, b, "Ok", << [possible |-> FALSE, confidence |-> 0] >>)
             ELSE IF ~validate_scan_range(distance).ok
             THEN ReturnOf(t, a, b, "Processing", << >>)
             ELSE /\ task' = [task EXCEPT ![t].pc = "env_lock", ![t].center = a,
                                          ![t].other = b, ![t].radius = distance.val]
                  /\ UNCHANGED << procMutex, idxMutex, rw, srvMutex, waiters, srv >>
    /\ UNCHANGED << wiring, battery, lastHealth, shutdownPc, sleepFired, rtree, metrics >>

CheckInteractionBegin(t) == CheckInteraction(t, Centers)

\* A query_environment that returns with its guard still held.
DropEnvGuard_keeps(held) == held

\* query_environment returns: its guard of the environment index, a local of
\* the function, is dropped.
DropEnvGuard(held) ==
    [held EXCEPT ![IndexOf("env")] = Released(@, waiters.idx[IndexOf("env")], @).owner]

\* query_environment under the environment index's Mutex: the radius query,
\* after which the guard is dropped; then the caller goes on.
QueryEnvironment(t) ==
    /\ task[t].pc = "qe"
    /\ CanRead(IndexOf("env"))
    /\ \E found \in { query_radius(rtree[IndexOf("env")], task[t].center,
                                     RadiusOf(task[t])) } :
          IF ~found.ok
          THEN Return(t, "Processing", << >>)
          ELSE IF task[t].op = "check_interaction_possible"
          THEN LET confidence == FoldMaxConfidence(found.val, task[t].center,
                                                   task[t].other, RadiusOf(task[t]))
               IN ReturnOf(t, task[t].center, task[t].other, "Ok",
                           << [possible |-> confidence >= MIN_CONFIDENCE_SCORE,
                               confidence |-> confidence] >>)
          ELSE /\ task' = [task EXCEPT ![t].pc = "entity_lock", ![t].env = found.val]
               /\ idxMutex' = DropEnvGuard(idxMutex)
               /\ waiters' = [waiters EXCEPT !.idx[IndexOf("env")] =
                                 IF idxMutex'[IndexOf("env")] = idxMutex[IndexOf("env")]
                                 THEN @
                                 ELSE Released(t, @, t).queue]
               /\ UNCHANGED << procMutex, rw, srvMutex, srv >>
    /\ UNCHANGED << wiring, battery, lastHealth, shutdownPc, sleepFired, rtree, metrics >>

\* self.user_index / self.tag_index .try_lock_for(self.lock_timeout) succeeds.
EntityLock(t) ==
    /\ task[t].pc = "entity_lock"
    /\ try_lock_for(IndexOf(EntityRole(task[t].op)))
    /\ idxMutex' = [idxMutex EXCEPT ![IndexOf(EntityRole(task[t].op))] = t]
    /\ task' = [task EXCEPT ![t].pc = "entity_query"]
    /\ UNCHANGED << wiring, battery, lastHealth, shutdownPc, sleepFired, procMutex,
                    rw, rtree, metrics, srvMutex, waiters, srv >>

\* The entity radius query, then retain, sort_by and truncate.
EntityQuery(t) ==
    /\ task[t].pc = "entity_query"
    /\ CanRead(IndexOf(EntityRole(task[t].op)))
    /\ \E found \in { query_radius(rtree[IndexOf(EntityRole(task[t].op))],
                                     task[t].center, RadiusOf(task[t])) } :
          IF ~found.ok
          THEN Return(t, found.err, << >>)
          ELSE Return(t, "Ok", RankCandidates(found.val, task[t].env,
                                              task[t].center, RadiusOf(task[t])))
    /\ UNCHANGED << wiring, battery, lastHealth, shutdownPc, sleepFired, rtree, metrics >>

(***************************************************************************)
(* The server's request deadline                                           *)
(***************************************************************************)
\* The suspension points inside the future that tokio::time::timeout wraps.
InsideTimeout(pc) ==
    pc \in { "env_lock", "insert", "points_metric", "qe", "entity_lock", "entity_query" }

\* A dropped future whose index Mutex guards are leaked.
DropFuture_keeps_index(t) ==
    LET Passed(proc, srvr, idx, holds) ==
            /\ procMutex' = proc.owner
            /\ idxMutex' = idxMutex
            /\ rw' = [i \in Indexes |-> holds[i].lock]
            /\ srvMutex' = srvr.owner
            /\ waiters' = [proc |-> proc.queue, srv |-> srvr.queue,
                           idx |-> waiters.idx,
                           rw |-> [i \in Indexes |-> holds[i].queue]]
    IN Passed(Released(procMutex, waiters.proc, t), Released(srvMutex, waiters.srv, t),
              [i \in Indexes |-> Released(idxMutex[i], waiters.idx[i], t)],
              [i \in Indexes |-> ReleasedHolds(rw[i], waiters.rw[i], t)])

\* The wrapped future is dropped with every guard it holds, and `?` returns
\* the handler with it.
DropFuture(t) == DropGuards(t)

\* request_timeout elapses while the call is suspended: deadline_exceeded.
Deadline(t) ==
    /\ task[t].op \in HandlerOps
    /\ InsideTimeout(task[t].pc)
    /\ task' = [task EXCEPT ![t] = [Finished(task[t], "DeadlineExceeded", << >>)
                                     EXCEPT !.at = task[t].pc]]
    /\ DropFuture(t)
    /\ UNCHANGED << wiring, battery, lastHealth, shutdownPc, sleepFired, rtree,
                    metrics, srv >>

(***************************************************************************)
(* SpatialIndex used directly                                              *)
(***************************************************************************)
\* SpatialIndex::insert: validate_point, then the write hold and rtree.insert.
InsertInto(t, index) ==
    /\ task[t].pc = "ins"
    /\ \E location \in Centers, id \in 0..MaxNanos :
          \E point \in { Point(location, id) } :
          \E valid \in { validate_point(point, PRECISION_AT_10M_CM) } :
             IF ~valid.ok
             THEN ReturnGiven(t, << location, id >>, valid.err, << >>) /\ UNCHANGED rtree
             ELSE /\ CanWrite(index)
                  /\ rtree' = [rtree EXCEPT ![index] = Append(@, point)]
                  /\ ReturnGiven(t, << location, id >>, "Ok", << >>)
    /\ UNCHANGED << wiring, battery, lastHealth, shutdownPc, sleepFired, metrics >>

\* insert on a SpatialIndex of its own.
IndexInsert(t) == InsertInto(t, 1)

\* A holder of the user index's Arc locks its Mutex (lock().await) and
\* inserts a user; the guard is dropped when insert has returned.  The caller
\* takes the Mutex when it is free, or joins the queue and inserts when a
\* release has passed the Mutex to it.
RegisterUser(t) ==
    IF idxMutex[IndexOf("user")] \in { NoTask, t }
    THEN InsertInto(t, IndexOf("user"))
    ELSE /\ task[t].pc = "ins"
         /\ \A k \in 1..Len(waiters.idx[IndexOf("user")]) :
               waiters.idx[IndexOf("user")][k] # t
         /\ waiters' = [waiters EXCEPT !.idx[IndexOf("user")] = Append(@, t)]
         /\ UNCHANGED << wiring, battery, lastHealth, shutdownPc, sleepFired, procMutex,
                         idxMutex, rw, rtree, metrics, srvMutex, srv, task >>

\* SpatialIndex::query_radius up to self.rtree.read().await, for a center
\* among Centers or the Location process_point_cloud derives from the scan
\* point 1 m ahead, and a radius of 0.1 m or at and around both ends of
\* [0.5, 50].
IndexQueryBegin(t) ==
    /\ task[t].pc = "query"
    /\ \E c \in Centers
                \cup { SyntheticLocation(Point3(100, 0, 0), MIN_CONFIDENCE_THRESHOLD).val },
          r \in { 10 } \cup (RadiusInputs \ { NoneF }) :
          IF ExceedsLidarRange(F64(r))
          THEN Return(t, "QueryLimit", << >>)
          ELSE /\ task' = [task EXCEPT ![t].pc = "read_wait", ![t].center = c,
                                       ![t].radius = r]
               /\ UNCHANGED << procMutex, idxMutex, rw, srvMutex, waiters, srv >>
    /\ UNCHANGED << wiring, battery, lastHealth, shutdownPc, sleepFired, rtree, metrics >>

\* self.rtree.read().await: the read hold is granted at once or the call
\* joins the queue and goes on when the hold has been granted to it; env
\* remembers the contents under the hold.
ReadAcquire(t) ==
    /\ task[t].pc = "read_wait"
    /\ IF CanRead(1) \/ t \in rw[1].readers
       THEN /\ rw' = [rw EXCEPT ![1].readers = @ \cup { t }]
            /\ task' = [task EXCEPT ![t].pc = "reading", ![t].env = rtree[1]]
            /\ UNCHANGED waiters
       ELSE /\ \A k \in 1..Len(waiters.rw[1]) : waiters.rw[1][k].t # t
            /\ waiters' = [waiters EXCEPT !.rw[1] = Append(@, [t |-> t, write |-> FALSE])]
            /\ UNCHANGED << rw, task >>
    /\ UNCHANGED << wiring, battery, lastHealth, shutdownPc, sleepFired, procMutex,
                    idxMutex, rtree, metrics, srvMutex, srv >>

\* The loop over locate_within_distance under the read hold, and the return.
IndexQueryFinish(t) ==
    /\ task[t].pc = "reading"
    /\ \E found \in { query_radius(rtree[1], task[t].center, F64(task[t].radius)) } :
          IF found.ok THEN Return(t, "Ok", found.val)
                      ELSE Return(t, found.err, << >>)
    /\ UNCHANGED << wiring, battery, lastHealth, shutdownPc, sleepFired, rtree, metrics >>

\* optimize_index: self.rtree.write().await.  The write hold is granted at
\* once or the call joins the queue and goes on when the hold has been granted
\* to it.
OptimizeBegin(t) ==
    /\ task[t].pc = "opt"
    /\ IF CanWrite(1) \/ rw[1].writer = t
       THEN /\ rw' = [rw EXCEPT ![1].writer = t]
            /\ task' = [task EXCEPT ![t].pc = "rebuild"]
            /\ UNCHANGED waiters
       ELSE /\ \A k \in 1..Len(waiters.rw[1]) : waiters.rw[1][k].t # t
            /\ waiters' = [waiters EXCEPT !.rw[1] = Append(@, [t |-> t, write |-> TRUE])]
            /\ UNCHANGED << rw, task >>
    /\ UNCHANGED << wiring, battery, lastHealth, shutdownPc, sleepFired, procMutex,
                    idxMutex, rtree, metrics, srvMutex, srv >>

\* `rtree.bulk_load(rtree.iter().cloned().collect());` collects the entries
\* and calls on the tree what rstar defines as a constructor.  What the call
\* leaves behind the write guard the source does not say, neither the order of
\* the entries nor their number: the tree is left as any arrangement of
\* entries it was given, the one it was included, and rtree.size() is read
\* before and after.
OptimizeFinish(t) ==
    /\ task[t].pc = "rebuild"
    /\ \E loaded \in UNION { [1..n -> { rtree[1][k] : k \in 1..Len(rtree[1]) }] :
                              n \in 0..Len(rtree[1]) } :
          /\ rtree' = [rtree EXCEPT ![1] = loaded \o << >>]
          /\ Return(t, "Ok", << [initial_size |-> Len(rtree[1]),
                                 final_size |-> Len(loaded)] >>)
    /\ UNCHANGED << wiring, battery, lastHealth, shutdownPc, sleepFired, metrics >>

(***************************************************************************)
(* Specifications                                                          *)
(***************************************************************************)
\* Every step of the call of task t after its start.
TaskStep(t) ==
    \/ CheckHealth(t)
    \/ ProcessorLock(t)
    \/ ServerAdmit(t)
    \/ ServerMetricsLock(t)
    \/ ProcessPointCloudBegin(t)
    \/ EnvLock(t)
    \/ LockTimeout(t)
    \/ InsertPoint(t)
    \/ WriteProcessingTime(t)
    \/ FinishScan(t)
    \/ DiscoverBegin(t)
    \/ CheckInteractionBegin(t)
    \/ QueryEnvironment(t)
    \/ EntityLock(t)
    \/ EntityQuery(t)
    \/ Deadline(t)

\* The engine under concurrent calls.
Next ==
    \/ BatteryTelemetry
    \/ \E t \in Tasks : Start(t, OpsOf(wiring))
    \/ \E t \in Tasks : TaskStep(t)

Spec == Init /\ [][Next]_vars

\* The facade with shutdown() called at any moment.
FacadeStep(t) ==
    \/ CheckHealth(t)
    \/ ProcessorLock(t)
    \/ ProcessPointCloudBegin(t)
    \/ EnvLock(t)
    \/ LockTimeout(t)
    \/ InsertPoint(t)
    \/ WriteProcessingTime(t)
    \/ FinishScan(t)
    \/ DiscoverBegin(t)
    \/ CheckInteractionBegin(t)
    \/ QueryEnvironment(t)
    \/ EntityLock(t)
    \/ EntityQuery(t)

NextLifecycle ==
    \/ ShutdownStart
    \/ GraceTimerFires
    \/ ShutdownReturn
    \/ BatteryTelemetry
    \/ \E t \in Tasks : Start(t, OpsOf(wiring))
    \/ \E t \in Tasks : FacadeStep(t)

InitLifecycle == wiring = "facade" /\ InitCommon

SpecLifecycle == InitLifecycle /\ [][NextLifecycle]_vars

\* Every call that has started keeps being scheduled.
FairSpec ==
    /\ Spec
    /\ \A t \in Tasks : WF_vars(TaskStep(t))

IndexStep(t) ==
    \/ IndexInsert(t)
    \/ IndexQueryBegin(t)
    \/ ReadAcquire(t)
    \/ IndexQueryFinish(t)
    \/ OptimizeBegin(t)
    \/ OptimizeFinish(t)

NextIndex ==
    \/ \E t \in Tasks : Start(t, OpsOf(wiring))
    \/ \E t \in Tasks : IndexStep(t)

SpecIndex == InitIndex /\ [][NextIndex]_vars

\* ---------------------------------------------------------------------------
\* The resolver's interaction check on pairs of locations up to and beyond
\* the 50 m of a scan range: on one vertical, and on the meridians of 180
\* and -180 degrees, which lie a centimetre of altitude or half the globe
\* apart.
\* ---------------------------------------------------------------------------
InteractionLocations ==
    { LocationAt(0), LocationAt(30), LocationAt(100), LocationAt(5000), LocationAt(5100),
      Location_new(0, 180, 0, 100, NoneF).val, Location_new(0, -180, 1, 100, NoneF).val }

InitInteraction == wiring = "server" /\ InitCommon

InteractionStep(t) ==
    \/ CheckInteraction(t, InteractionLocations)
    \/ EnvLock(t)
    \/ LockTimeout(t)
    \/ QueryEnvironment(t)

NextInteraction ==
    \/ \E t \in Tasks : Start(t, { "check_interaction_possible" })
    \/ \E t \in Tasks : InteractionStep(t)

SpecInteraction == InitInteraction /\ [][NextInteraction]_vars

\* ---------------------------------------------------------------------------
\* A ProximityService on three indexes of its own, as run_server builds it,
\* beside a caller that kept the Arc of the user index it handed to
\* ProximityService::new and inserts users through it.
\* ---------------------------------------------------------------------------
InitDiscovery == wiring = "server" /\ InitCommon

DiscoveryStep(t) ==
    \/ RegisterUser(t)
    \/ DiscoverBegin(t)
    \/ EnvLock(t)
    \/ LockTimeout(t)
    \/ QueryEnvironment(t)
    \/ EntityLock(t)
    \/ EntityQuery(t)

NextDiscovery ==
    \/ \E t \in Tasks :
          Start(t, { "insert", "discover_nearby_users", "discover_nearby_tags" })
    \/ \E t \in Tasks : DiscoveryStep(t)

SpecDiscovery == InitDiscovery /\ [][NextDiscovery]_vars

\* ---------------------------------------------------------------------------
\* One shared LiDARProcessor called directly by concurrent tasks, on frames
\* whose points lie on and beside the two bounds of the range filter.  The
\* point (1.2, 49.92, 2.56) lies 50 m away in decimal numbers and has the f64
\* norm 50.00000000000001.
\* ---------------------------------------------------------------------------
BoundaryFrames ==
    UNION { [1..k -> [p : { Point3(0, 0, 49), Point3(0, 0, 50), Point3(-50, 0, 0),
                            Point3(100, 0, 0), Point3(5000, 0, 0), Point3(0, -5000, 0),
                            Point3(0, 5001, 0), Point3(120, 4992, 256) },
                      n : { 1 }]] : k \in 0..MaxRuns }
    \cup { << [p |-> Point3(0, 0, 49), n |-> MAX_POINTS_PER_SCAN] >> }

InitProcessor == wiring = "processor" /\ InitCommon

ProcessorStep(t) ==
    \/ ProcessPointCloud(t, BoundaryFrames)
    \/ EnvLock(t)
    \/ LockTimeout(t)
    \/ InsertPoint(t)
    \/ WriteProcessingTime(t)
    \/ FinishScan(t)

NextProcessor ==
    \/ \E t \in Tasks : Start(t, { "process_point_cloud" })
    \/ \E t \in Tasks : ProcessorStep(t)

SpecProcessor == InitProcessor /\ [][NextProcessor]_vars

\* ---------------------------------------------------------------------------
\* The server under streams: each stream task reads its messages one by one
\* and runs get_nearby_points on each.  The response channel holds 32
\* responses, more than a stream of MaxRequests messages sends, so a send
\* never waits.
\* ---------------------------------------------------------------------------
InitStream == wiring = "server" /\ InitCommon

\* `while let Some(request) = stream.message().await?`: the next message of the
\* client arrives (Ok(Some)), the client has closed the stream and the task
\* ends with Ok (Ok(None)), or the transport reports an error, a reset by the
\* client for one, and `?` ends the task with that Status.
StreamReceive(t) ==
    /\ task[t].pc = "recv"
    /\ \/ /\ task[t].requests < MaxRequests
          /\ task' = [task EXCEPT ![t].requests = @ + 1, ![t].pc = "admit"]
       \/ task' = [task EXCEPT ![t].pc = "done", ![t].res = "Ok"]
       \/ task' = [task EXCEPT ![t].pc = "done", ![t].res = "Cancelled"]
    /\ UNCHANGED << wiring, battery, lastHealth, shutdownPc, sleepFired, procMutex,
                    idxMutex, rw, rtree, metrics, srvMutex, waiters, srv >>

\* `tx.send(response.into_inner()).await?`: the response of the current
\* message enters the channel and the task reads on, or the client has
\* dropped the receiving end, the send fails and `?` ends the task; the
\* handler's metrics are those of its Ok either way.
StreamSend(t) ==
    /\ task[t].pc = "send"
    /\ \/ task' = [task EXCEPT ![t].pc = "recv",
                               ![t].responses = Append(@, task[t].requests)]
       \/ task' = [task EXCEPT ![t].pc = "done", ![t].res = "SendError"]
    /\ UNCHANGED << wiring, battery, lastHealth, shutdownPc, sleepFired, procMutex,
                    idxMutex, rw, rtree, metrics, srvMutex, waiters, srv >>

StreamStep(t) ==
    \/ StreamReceive(t)
    \/ StreamSend(t)
    \/ ServerAdmit(t)
    \/ ServerMetricsLock(t)
    \/ DiscoverBegin(t)
    \/ EnvLock(t)
    \/ LockTimeout(t)
    \/ QueryEnvironment(t)
    \/ EntityLock(t)
    \/ EntityQuery(t)
    \/ Deadline(t)

\* A client opens a stream, or a caller of the same components starts a
\* discovery of its own; or a call takes a step.
NextStream ==
    \/ \E t \in Tasks :
          Start(t, StreamOps \cup { "get_nearby_points", "discover_nearby_tags" })
    \/ \E t \in Tasks : StreamStep(t)

SpecStream == InitStream /\ [][NextStream]_vars

\* ---------------------------------------------------------------------------
\* The Location model on its own: Location::new and calculate_distance applied
\* to arguments around every bound they test.  Angles in degrees, lengths in
\* centimetres, confidences in thousandths.
\* ---------------------------------------------------------------------------
Latitudes == { -91, -90, 0, 90, 91 }

Longitudes == { -181, -180, 0, 180, 181 }

Confidences == { NoneF, 500 }

\* Locations Location::new constructs: every valid latitude and longitude of
\* the arguments above, at five altitudes, two of them (15 m and 15.01 m) a
\* centimetre apart.
Constructed ==
    { Location_new(lat, lon, alt, acc, conf).val :
        lat \in { x \in Latitudes : x >= -90 /\ x <= 90 },
        lon \in { x \in Longitudes : x >= -180 /\ x <= 180 },
        alt \in { 0, 30, 1500, 1501, MAX_ALTITUDE_METERS },
        acc \in { 100 }, conf \in Confidences }

InitLocation == wiring = "location" /\ InitCommon

\* The finished call of a function: its arguments, and its result or error.
Applied(call, arguments, result) ==
    [Finished(call, IF result.ok THEN "Ok" ELSE result.err,
              IF result.ok THEN << result.val >> ELSE << >>)
       EXCEPT !.args = arguments]

LocationNew(t) ==
    /\ task[t].pc = "new"
    /\ \E latitude \in Latitudes, longitude \in Longitudes,
          altitude \in { MIN_ALTITUDE_METERS - 1, MIN_ALTITUDE_METERS, 0,
                         MAX_ALTITUDE_METERS, MAX_ALTITUDE_METERS + 1 },
          accuracy_meters \in { MIN_ACCURACY_METERS - 1, MIN_ACCURACY_METERS, 100,
                                MAX_ACCURACY_METERS, MAX_ACCURACY_METERS + 1 },
          confidence_score \in Confidences :
          task' = [task EXCEPT ![t] =
                     Applied(task[t],
                             << latitude, longitude, altitude, accuracy_meters,
                                confidence_score >>,
                             Location_new(latitude, longitude, altitude,
                                          accuracy_meters, confidence_score))]
    /\ UNCHANGED << wiring, battery, lastHealth, shutdownPc, sleepFired, procMutex,
                    idxMutex, rw, rtree, metrics, srvMutex, waiters, srv >>

CalculateDistance(t) ==
    /\ task[t].pc = "dist"
    /\ \E self \in Constructed, other \in Constructed :
          task' = [task EXCEPT ![t] =
                     Applied(task[t], << self, other >>, calculate_distance(self, other))]
    /\ UNCHANGED << wiring, battery, lastHealth, shutdownPc, sleepFired, procMutex,
                    idxMutex, rw, rtree, metrics, srvMutex, waiters, srv >>

NextLocation ==
    \/ \E t \in { 1 } : Start(t, { "Location_new", "calculate_distance" })
    \/ \E t \in Tasks : LocationNew(t)
    \/ \E t \in Tasks : CalculateDistance(t)

SpecLocation == InitLocation /\ [][NextLocation]_vars

(***************************************************************************)
(* Properties                                                              *)
(***************************************************************************)
InFlight(t) == task[t].pc \notin { "idle", "done" }

\* Task t holds no Mutex and no read or write hold.
HoldsNothing(t) ==
    /\ procMutex # t
    /\ \A i \in Indexes : idxMutex[i] # t /\ rw[i].writer # t /\ t \notin rw[i].readers

\* C1: a process_scan or discover_nearby_users call that reaches the battery
\* gate while battery_level < 15 ends there with the battery-critical error,
\* and that step leaves the processor's Mutex, every index's Mutex, read and
\* write holds and entries, and the processor's metrics as they were.
C1_BatteryGate ==
    [][\A t \in Tasks :
          (task[t].pc = "health" /\ battery < 15 /\ task'[t] # task[t])
          => /\ task'[t].pc = "done"
             /\ task'[t].res = "BatteryCritical"
             /\ UNCHANGED << procMutex, idxMutex, rw, rtree, metrics >>]_vars

C1_Witness ==
    \E t \in Tasks : /\ task[t].op \in FacadeOps
                     /\ task[t].res = "BatteryCritical"
                     /\ battery < 15

\* C2: a process_scan or discover_nearby_users call started after shutdown()
\* was called does not get past its first step, and ends with ShuttingDown.
C2_ShuttingDown ==
    \A t \in Tasks :
        (task[t].late /\ task[t].op \in FacadeOps)
        => /\ task[t].pc \in { "health", "done" }
           /\ task[t].pc = "done" => task[t].res = "ShuttingDown"

\* C3: once shutdown() has been called and no call is in flight, shutdown()
\* can return at once, whether or not the grace period has elapsed.
C3_TerminatesWhenIdle ==
    (shutdownPc = "sleeping" /\ \A t \in Tasks : ~InFlight(t)) => ENABLED ShutdownReturn

\* C4: under either wiring, every call that has started eventually returns.
C4_EveryCallReturns ==
    \A t \in Tasks : (task[t].pc # "idle") ~> (task[t].pc = "done")

C4_Witness ==
    /\ \A t \in Tasks : task[t].pc = "done"
    /\ \E t \in Tasks : task[t].res = "LockTimeout"
    /\ \E t \in Tasks : task[t].res = "Ok"

\* C5: while a query_radius call holds the read hold of an index, no insert
\* or rebuild is inside its write hold, and the entries the query evaluates
\* are the entries the index had when the read hold was granted.
C5_Snapshot ==
    \A t \in Tasks :
        task[t].pc = "reading"
        => /\ t \in rw[1].readers
           /\ rw[1].writer = NoTask
           /\ rtree[1] = task[t].env

C5_Witness ==
    \E t \in Tasks, u \in Tasks :
        /\ task[t].pc = "reading"
        /\ task[u].op = "optimize_index"
        /\ task[u].pc = "opt"

\* C7: a process_point_cloud call waiting for the environment index's Mutex,
\* or a discovery call waiting for the entity index's Mutex, that returns
\* without the Mutex (the request deadline aside) returns LockTimeout, has
\* inserted nothing, and its return leaves every index as it was.
C7_LockTimeout ==
    [][\A t \in Tasks :
          ( /\ \/ task[t].pc = "env_lock" /\ task[t].op \in ScanOps
               \/ task[t].pc = "entity_lock"
            /\ task'[t].pc = "done"
            /\ task'[t].res # "DeadlineExceeded" )
          => /\ task'[t].res = "LockTimeout"
             /\ task'[t].cursor = 0
             /\ rtree' = rtree
             /\ \A i \in Indexes : idxMutex'[i] # t]_vars

C7_Witness ==
    \E t \in Tasks, u \in Tasks :
        /\ task[t].op \in ScanOps
        /\ task[t].res = "LockTimeout"
        /\ idxMutex[IndexOf("env")] = u

\* C8: the step at which the request deadline ends a server call leaves
\* every index's entries as they were, and a call that ended with
\* DeadlineExceeded holds no Mutex and no read or write hold.
C8_Deadline ==
    /\ [](\A t \in Tasks : task[t].res = "DeadlineExceeded" => HoldsNothing(t))
    /\ [][\A t \in Tasks :
            (task'[t].res = "DeadlineExceeded" /\ task[t].res # "DeadlineExceeded")
            => rtree' = rtree /\ task'[t].pc = "done"]_vars

C8_Witness ==
    \E t \in Tasks, u \in Tasks :
        /\ task[t].res = "DeadlineExceeded"
        /\ task[t].at = "insert"
        /\ idxMutex[IndexOf("env")] = u

\* C9: a process_point_cloud call given more than 100000 points has ended
\* with ExcessivePointCloud, and the step that ends it so leaves every
\* index's entries and the processor's metrics as they were.
C9_ExcessivePointCloud ==
    /\ [](\A t \in Tasks : task[t].n > 100000
            => task[t].pc = "done" /\ task[t].res = "ExcessivePointCloud")
    /\ [][\A t \in Tasks :
            (task'[t].res = "ExcessivePointCloud" /\ task[t].res # "ExcessivePointCloud")
            => rtree' = rtree /\ metrics' = metrics]_vars

C9_Witness ==
    \E t \in Tasks : task[t].res = "ExcessivePointCloud" /\ task[t].n = 100001

\* The projection of an entry lies between 0.5 m and 50 m from the origin.
InLidarRange(entry) ==
    LET p == to_point3(entry.location)
    IN /\ Max2(Abs(p.x), Max2(Abs(p.y), Abs(p.z))) <= 5000
       /\ p.x * p.x + p.y * p.y + p.z * p.z >= 50 * 50
       /\ p.x * p.x + p.y * p.y + p.z * p.z <= 5000 * 5000

\* C10: the step at which an insert ends with PointValidation leaves the
\* index's entries as they were, and every entry of the index lies in the
\* range validation demands.
C10_OnlyValidated ==
    /\ [](\A k \in 1..Len(rtree[1]) : InLidarRange(rtree[1][k]))
    /\ [][\A t \in Tasks :
            (task[t].op = "insert" /\ task'[t].res = "PointValidation"
             /\ task[t].res # "PointValidation")
            => rtree' = rtree]_vars

C10_Witness ==
    \E t \in Tasks : task[t].op = "insert" /\ task[t].res = "PointValidation"

\* C12: a query_radius call with a radius above 50 m ends at the radius check
\* with an error and no entry, and that step changes no read or write hold
\* and no Mutex; whatever the index holds and wherever the center lies, only
\* calls with a radius of at most 50 m go on to ask for the read hold.
C12_RadiusRejected ==
    /\ [](\A t \in Tasks :
            (task[t].op = "query_radius" /\ task[t].pc \in { "read_wait", "reading" })
            => task[t].radius <= MAX_LIDAR_RANGE_METERS)
    /\ [][\A t \in Tasks :
            (task[t].pc = "query" /\ task'[t].pc # "query")
            => \/ /\ task'[t].pc = "read_wait"
                  /\ task'[t].radius <= MAX_LIDAR_RANGE_METERS
               \/ /\ task'[t].pc = "done"
                  /\ task'[t].res = "QueryLimit"
                  /\ task'[t].out = << >>
                  /\ rw' = rw
                  /\ idxMutex' = idxMutex]_vars

\* A query_radius call on an index that holds no entry has been refused with
\* QueryLimit, which the cap of 1000 results cannot explain.
C12_Witness ==
    /\ rtree[1] = << >>
    /\ \E t \in Tasks :
          task[t].op = "query_radius" /\ task[t].pc = "done" /\ task[t].res = "QueryLimit"

\* C14: an insert of a Location built by Location::new from valid geodetic
\* fields returns Ok, and a query_radius centred at the Location of an entry
\* of the index ends Ok with a list that holds an entry of that id.
C14_InsertThenFound ==
    /\ [](\A t \in Tasks :
            (task[t].op = "insert" /\ task[t].pc = "done") => task[t].res = "Ok")
    /\ [][\A t \in Tasks :
            (task[t].pc = "reading" /\ task'[t].pc = "done")
            => \A k \in 1..Len(rtree[1]) :
                  rtree[1][k].location = task[t].center
                  => /\ task'[t].res = "Ok"
                     /\ \E i \in 1..Len(task'[t].out) :
                           task'[t].out[i].id = rtree[1][k].id]_vars

\* The confidence query_radius gives an entry at the given distance.
ConfidenceAt(distance, radius) == ((radius - distance) * 1000) \div radius

\* C19: a discovery call whose environment snapshot is empty skips the
\* visibility filter, so that a user whom a caller has inserted at the query
\* center, the insert call having returned, is among the results.
C19_EmptyEnvironmentSkipsFilter ==
    [][\A t \in Tasks :
          (/\ task[t].op = "discover_nearby_users"
           /\ task[t].pc = "entity_query" /\ task'[t].pc = "done"
           /\ task[t].env = << >>)
          => \A u \in Tasks :
                (/\ task[u].op = "insert" /\ task[u].pc = "done"
                 /\ task[u].args[1] = task[t].center)
                => /\ task'[t].res = "Ok"
                   /\ \E i \in 1..Len(task'[t].out) :
                         /\ task'[t].out[i].id = task[u].args[2]
                         /\ task'[t].out[i].location = task[t].center]_vars

\* C21: a discovery call whose query_environment fails (the step that ends
\* the call while it waits for, or holds, the environment index on behalf of
\* query_environment, the request deadline aside) still ends Ok.
C21_EnvFailureDegrades ==
    [][\A t \in Tasks :
          (task[t].op \in DiscoverOps /\ task[t].pc \in { "env_lock", "qe" }
           /\ task'[t].pc = "done" /\ task'[t].res # "DeadlineExceeded")
          => task'[t].res = "Ok"]_vars

\* C23: a check_interaction_possible call on a pair of locations less than
\* 0.5 m apart leaves its first step finished, with Ok((false, 0.0)), and so
\* never goes on to the environment query.
C23_TooCloseRefused ==
    [][\A t \in Tasks :
          (/\ task[t].op = "check_interaction_possible"
           /\ task[t].pc = "check" /\ task'[t].pc # "check"
           /\ f64_lt(Distance3D(task'[t].center, task'[t].other),
                     F64(MIN_INTERACTION_DISTANCE_METERS)))
          => /\ task'[t].pc = "done"
             /\ task'[t].res = "Ok"
             /\ task'[t].out = << [possible |-> FALSE, confidence |-> 0] >>]_vars

\* C25: Location::new returns a Location exactly when -90 <= lat <= 90,
\* -180 <= lon <= 180, -100 m <= alt <= 10000 m and 0.01 m <= accuracy <= 50 m;
\* otherwise it returns the error of the first offending field in the order
\* latitude, longitude, altitude, accuracy; the Location holds the arguments,
\* with confidence 0.95 when none is given.
C25_LocationNew ==
    \A t \in Tasks :
        (task[t].op = "Location_new" /\ task[t].pc = "done")
        => LET latitude == task[t].args[1]
               longitude == task[t].args[2]
               altitude == task[t].args[3]
               accuracy_meters == task[t].args[4]
               confidence_score == task[t].args[5]
               lat_ok == -90 <= latitude /\ latitude <= 90
               lon_ok == -180 <= longitude /\ longitude <= 180
               alt_ok == -10000 <= altitude /\ altitude <= 1000000
               acc_ok == 1 <= accuracy_meters /\ accuracy_meters <= 5000
           IN /\ task[t].res = "Ok" <=> (lat_ok /\ lon_ok /\ alt_ok /\ acc_ok)
              /\ ~lat_ok => task[t].res = "InvalidLatitude"
              /\ (lat_ok /\ ~lon_ok) => task[t].res = "InvalidLongitude"
              /\ (lat_ok /\ lon_ok /\ ~alt_ok) => task[t].res = "InvalidAltitude"
              /\ (lat_ok /\ lon_ok /\ alt_ok /\ ~acc_ok) => task[t].res = "InvalidAccuracy"
              /\ task[t].res = "Ok"
                 => task[t].out =
                      << [latitude |-> latitude, longitude |-> longitude,
                          altitude |-> altitude, accuracy_meters |-> accuracy_meters,
                          confidence_score |-> IF confidence_score = NoneF THEN 950
                                               ELSE confidence_score] >>

\* Location::new has refused latitude 91 although the longitude, the altitude
\* and the accuracy of the same call were out of range too.
C25_Witness ==
    \E t \in Tasks :
        /\ task[t].op = "Location_new" /\ task[t].pc = "done"
        /\ task[t].args = << 91, 181, MAX_ALTITUDE_METERS + 1, MAX_ACCURACY_METERS + 1, NoneF >>
        /\ task[t].res = "InvalidLatitude"

\* C26: calculate_distance(L, L) of a constructed Location L succeeds with a
\* value within 0.01 m of 0.
C26_DistanceToSelf ==
    \A t \in Tasks :
        (/\ task[t].op = "calculate_distance" /\ task[t].pc = "done"
         /\ task[t].args[1] = task[t].args[2])
        => /\ task[t].res = "Ok"
           /\ task[t].out[1] <= 1

\* C24: on every stream the responses are those of the requests received, one
\* each and in the order of the requests: the responses sent so far answer
\* requests 1, 2, ... in that order, every request but the one in progress has
\* its response, and a stream that has ended has answered every request.
C24_OneResponsePerRequest ==
    \A t \in Tasks :
        task[t].op \in StreamOps
        => /\ \A i \in 1..Len(task[t].responses) : task[t].responses[i] = i
           /\ Len(task[t].responses) >= task[t].requests - 1
           /\ task[t].pc \in { "recv", "done" }
              => Len(task[t].responses) = task[t].requests

\* C27: every process_point_cloud call on a frame within the size limit,
\* running beside other calls on the same processor, returns Ok.
C27_ConcurrentScansSucceed ==
    \A t \in Tasks :
        (/\ task[t].op = "process_point_cloud" /\ task[t].pc = "done"
         /\ task[t].n <= MAX_POINTS_PER_SCAN)
        => task[t].res = "Ok"

\* The runs of a frame whose points have a magnitude m with 0.5 m <= m and
\* m <= scan_range, in the order of the frame.  The magnitude is the f64 norm
\* of the point; it lies on the side of a bound on which the sum of the
\* squares in whole centimetres lies, and where that sum is the square of the
\* bound and the point lies off the axes, the f64 norm of the f64 coordinates
\* decides.
KeptOf(frame) ==
    SelectSeq(frame, LAMBDA run :
        /\ SumSq(run.p) >= 50 * 50
        /\ SumSq(run.p) <= ScanRange * ScanRange
        /\ (SumSq(run.p) = 50 * 50 /\ MaxAbs(run.p) < 50)
           => ~RootAtMost(NormSquared(run.p), Under(Metres(50).m, 1, Metres(50).e))
        /\ (SumSq(run.p) = ScanRange * ScanRange /\ MaxAbs(run.p) < ScanRange)
           => RootAtMost(NormSquared(run.p), Metres(ScanRange)))

\* list is what is left of whole after some of its first points were taken.
RestOf(list, whole) ==
    \E k \in 0..Len(whole) :
        \/ list = SubSeq(whole, k + 1, Len(whole))
        \/ /\ k >= 1 /\ Len(list) = Len(whole) - k + 1
           /\ Tail(list) = SubSeq(whole, k + 1, Len(whole))
           /\ Head(list).p = whole[k].p /\ Head(list).n <= whole[k].n

\* C29: the points a process_point_cloud call keeps are exactly the points of
\* the frame whose magnitude lies in [0.5, scan_range], in frame order; the
\* points it goes on to insert are a suffix of them; and the map of a call
\* that returns Ok is that list.
C29_MapIsRangeFilter ==
    [][\A t \in Tasks :
          task'[t].op = "process_point_cloud"
          => /\ task'[t].pc \in { "env_lock", "insert" }
                => /\ task'[t].out = KeptOf(task'[t].args[1])
                   /\ RestOf(task'[t].pts, task'[t].out)
             /\ (task[t].pc # "done" /\ task'[t].pc = "done" /\ task'[t].res = "Ok")
                => task'[t].out = KeptOf(task'[t].frame)]_vars

\* A call on a frame of one point whose f64 norm is the least f64 above 50 m
\* and one point below the lower bound has returned Ok with a map that holds
\* neither.
C29_Witness ==
    \E t \in Tasks :
        /\ task[t].op = "process_point_cloud" /\ task[t].pc = "done"
        /\ task[t].res = "Ok"
        /\ task[t].frame = << [p |-> Point3(120, 4992, 256), n |-> 1],
                              [p |-> Point3(0, 0, 49), n |-> 1] >>
        /\ task[t].out = << >>

\* No hold of any index is in the hands of call t.
HoldsNoIndex(t) ==
    \A i \in Indexes : idxMutex[i] # t /\ rw[i].writer # t /\ t \notin rw[i].readers

\* C28: the step of a discovery call that settles its radius is taken with no
\* index hold; given a radius below 0.5 m or above 50 m it ends the call with
\* InvalidRadius there and then, the environment unqueried; given no radius
\* it goes on with 50 m, and given a radius within [0.5 m, 50 m] with that one.
C28_RadiusSettledFirst ==
    [][\A t \in Tasks :
          (task[t].op \in DiscoverOps /\ task[t].pc = "disc" /\ task'[t].pc # "disc")
          => LET given == task'[t].args[1]
             IN /\ HoldsNoIndex(t)
                /\ (given # NoneF /\ (given < 50 \/ given > 5000))
                   => /\ task'[t].pc = "done" /\ task'[t].res = "InvalidRadius"
                      /\ UNCHANGED << idxMutex, rw, rtree >>
                /\ given = NoneF
                   => task'[t].pc = "env_lock" /\ task'[t].radius = 5000
                /\ (given # NoneF /\ given >= 50 /\ given <= 5000)
                   => task'[t].pc = "env_lock" /\ task'[t].radius = given]_vars

\* A discovery given 50.01 m has ended with InvalidRadius while another call
\* holds the environment index.
C28_Witness ==
    \E t \in Tasks :
        /\ task[t].op \in DiscoverOps /\ task[t].pc = "done"
        /\ task[t].args = << 5001 >> /\ task[t].res = "InvalidRadius"
        /\ \E u \in Tasks \ { t } : idxMutex[IndexOf("env")] = u

\* The indexes of which call t has the Mutex guard, the write hold or a read
\* hold.
IndexesHeldBy(t) ==
    { i \in Indexes : idxMutex[i] = t \/ rw[i].writer = t \/ t \in rw[i].readers }

\* C30: no call holds guards of two different indexes at once, and a discovery
\* call that waits for its user or tag index holds no index: the hold that
\* query_environment took of the environment index is gone.
C30_OneIndexAtATime ==
    \A t \in Tasks :
        /\ Cardinality(IndexesHeldBy(t)) <= 1
        /\ (task[t].op \in DiscoverOps /\ task[t].pc = "entity_lock")
           => IndexesHeldBy(t) = {}
        /\ (task[t].op \in DiscoverOps /\ task[t].pc = "entity_query")
           => IndexesHeldBy(t) = { IndexOf(EntityRole(task[t].op)) }

\* On the server's three separate indexes a discovery holds its entity index,
\* after query_environment, while another call holds the environment index.
C30_Witness ==
    \E t \in Tasks : \E u \in Tasks \ { t } :
        /\ wiring = "server"
        /\ task[t].op \in DiscoverOps /\ task[t].pc = "entity_query"
        /\ idxMutex[IndexOf(EntityRole(task[t].op))] = t
        /\ idxMutex[IndexOf("env")] = u

\* C31: while a rebuild is inside the write hold of an index no query_radius
\* reads it and no other rebuild is inside it; the step in which an insert
\* stores its point is taken while no query reads the index and no rebuild is
\* inside it; read holds are shared (the witness: two queries reading at once).
C31_WritersExclude ==
    [][\A t \in Tasks :
          /\ task'[t].pc = "rebuild"
             => /\ rw'[1].writer = t /\ rw'[1].readers = {}
                /\ \A u \in Tasks \ { t } : task'[u].pc \notin { "reading", "rebuild" }
          /\ task'[t].pc = "reading" => (t \in rw'[1].readers /\ rw'[1].writer = NoTask)
          /\ (task[t].op = "insert" /\ rtree'[1] # rtree[1] /\ task'[t].pc = "done"
              /\ task[t].pc = "ins")
             => \A u \in Tasks \ { t } : task[u].pc \notin { "reading", "rebuild" }]_vars

\* Two query_radius calls hold the read hold of the same index at once, while
\* neither has returned.
C31_Witness ==
    \E t \in Tasks : \E u \in Tasks \ { t } :
        /\ task[t].op = "query_radius" /\ task[t].pc = "reading"
        /\ task[u].op = "query_radius" /\ task[u].pc = "reading"
        /\ { t, u } \subseteq rw[1].readers

\* The error with which process_point_cloud ends at point p when neither its
\* Location nor its insert succeeds, "none" when both succeed.
FailureAt(p) ==
    LET location == SyntheticLocation(p, ConfidenceThreshold)
    IN IF ~location.ok THEN location.err
       ELSE LET valid == validate_point(Point(location.val, 0), PRECISION_AT_10M_CM)
            IN IF valid.ok THEN "none" ELSE valid.err

\* The k-th point of a list of runs of identical points.
RECURSIVE PointAt(_, _)
PointAt(runs, k) ==
    IF k <= Head(runs).n THEN Head(runs).p ELSE PointAt(Tail(runs), k - Head(runs).n)

\* C33: the id a process_point_cloud call generates for a point is strictly
\* greater than every id a call on the same processor generated before.
C33_IdsIncrease ==
    [][\A t \in Tasks : \A u \in Tasks \ { t } :
          (/\ task[t].op = "process_point_cloud" /\ task[t].pc = "insert"
           /\ task'[t].pc = "done" /\ task'[t].args # << >>
           /\ task[u].op = "process_point_cloud" /\ task[u].pc = "done"
           /\ task[u].args # << >>)
          => task'[t].args[1] > task[u].args[1]]_vars

(***************************************************************************)
(* C34: the result of check_interaction_possible                           *)
(***************************************************************************)
\* The largest confidence among the entries within d of both a and b, 0 when
\* there is none.
ExpectedConfidence(entries, a, b, d) ==
    LET both == { k \in 1..Len(entries) :
                    /\ f64_le(Distance3D(a, entries[k].location), d)
                    /\ f64_le(Distance3D(b, entries[k].location), d) }
        found == { ConfidenceAt(Distance3D(a, entries[k].location).val, d.val) :
                     k \in both } \cup { 0 }
    IN CHOOSE c \in found : \A x \in found : x <= c

ExpectedInteraction(entries, a, b, d) ==
    << [possible |-> ExpectedConfidence(entries, a, b, d) >= MIN_CONFIDENCE_SCORE,
        confidence |-> ExpectedConfidence(entries, a, b, d)] >>

\* t ends a check_interaction_possible call in this step.
InteractionEnds(t) ==
    /\ task[t].op = "check_interaction_possible"
    /\ task[t].pc \in { "check", "env_lock", "qe" }
    /\ task'[t].pc = "done"

\* C34 as stated: every check_interaction_possible call on locations at least
\* 0.5 m apart returns (c >= 0.7, c), c the largest confidence among the
\* environment points within the distance of both locations, 0 without one.
C34_InteractionResult ==
    [][\A t \in Tasks :
          InteractionEnds(t) =>
             LET a == IF task[t].pc = "check" THEN task'[t].center ELSE task[t].center
                 b == IF task[t].pc = "check" THEN task'[t].other ELSE task[t].other
             IN f64_le(F64(MIN_INTERACTION_DISTANCE_METERS), Distance3D(a, b))
                => /\ task'[t].res = "Ok"
                   /\ task'[t].out = ExpectedInteraction(rtree[IndexOf("env")], a, b,
                                                         Distance3D(a, b))]_vars

\* C34, amended: on locations from 0.5 m to 50 m apart the call returns that
\* pair whenever the environment query succeeds, and a Processing error when
\* the environment query fails; on locations more than 50 m apart it returns
\* a Processing error.
C34_InteractionResultOrProcessing ==
    [][\A t \in Tasks :
          InteractionEnds(t) =>
             LET a == IF task[t].pc = "check" THEN task'[t].center ELSE task[t].center
                 b == IF task[t].pc = "check" THEN task'[t].other ELSE task[t].other
                 d == Distance3D(a, b)
                 entries == rtree[IndexOf("env")]
             IN f64_le(F64(MIN_INTERACTION_DISTANCE_METERS), d)
                => CASE task[t].pc = "check" ->
                          /\ f64_lt(F64(MAX_SCAN_RANGE_METERS), d)
                          /\ task'[t].res = "Processing"
                     [] task[t].pc = "env_lock" ->
                          /\ f64_le(d, F64(MAX_SCAN_RANGE_METERS))
                          /\ task'[t].res = "Processing"
                     [] task[t].pc = "qe" ->
                          /\ f64_le(d, F64(MAX_SCAN_RANGE_METERS))
                          /\ IF query_radius(entries, a, d).ok
                             THEN /\ task'[t].res = "Ok"
                                  /\ task'[t].out = ExpectedInteraction(entries, a, b, d)
                             ELSE task'[t].res = "Processing"]_vars

\* A call on locations 1 m apart has returned (false, 0): the environment
\* query succeeded and found no point.
C34_Witness ==
    \E t \in Tasks :
       /\ task[t].op = "check_interaction_possible" /\ task[t].pc = "done"
       /\ task[t].res = "Ok"
       /\ task[t].center = LocationAt(0) /\ task[t].other = LocationAt(100)
       /\ task[t].out = << [possible |-> FALSE, confidence |-> 0] >>

(***************************************************************************)
(* C40: no interaction beyond 50 m                                         *)
(***************************************************************************)
\* C40: a check_interaction_possible call on two locations more than 50 m
\* apart never returns a pair: the range check of the environment query
\* refuses the distance before the environment index is taken, and the call
\* ends with a Processing error and no output.
C40_NoInteractionBeyondRange ==
    [][\A t \in Tasks :
          InteractionEnds(t) =>
             LET a == IF task[t].pc = "check" THEN task'[t].center ELSE task[t].center
                 b == IF task[t].pc = "check" THEN task'[t].other ELSE task[t].other
             IN f64_lt(F64(MAX_SCAN_RANGE_METERS), Distance3D(a, b))
                => /\ task[t].pc = "check"
                   /\ task'[t].res = "Processing"
                   /\ task'[t].out = << >>
                   /\ idxMutex' = idxMutex]_vars

\* A call on locations 51 m apart has ended with Processing.
C40_Witness ==
    \E t \in Tasks :
       /\ task[t].op = "check_interaction_possible" /\ task[t].pc = "done"
       /\ f64_lt(F64(MAX_SCAN_RANGE_METERS), Distance3D(task[t].center, task[t].other))
       /\ task[t].res = "Processing"

(***************************************************************************)
(* C35: three stores                                                       *)
(***************************************************************************)
\* C35: the user index and the tag index are stores of their own: a discovery
\* that reads its candidates holds no guard of the environment index, into
\* which process_point_cloud inserts, and a tag discovery that reads its
\* candidates holds no guard of the user index.
C35_IndependentStores ==
    \A t \in Tasks :
        (task[t].op \in { "discover_nearby_users", "discover_nearby_tags" }
         /\ task[t].pc = "entity_query")
        => /\ idxMutex[IndexOf("env")] # t
           /\ task[t].op = "discover_nearby_tags" => idxMutex[IndexOf("user")] # t

(***************************************************************************)
(* C36: the active_connections gauge                                       *)
(***************************************************************************)
\* The handlers that have incremented active_connections and not returned:
\* the increment is made under the metrics guard, which a handler keeps until
\* it returns.
BeingHandled == { t \in Tasks : task[t].op \in HandlerOps /\ srvMutex = t }

\* C36: in every state of the server active_connections is the number of
\* requests being handled, so it is 0 when no request is in flight.
C36_ActiveConnections == srv.active_connections = Cardinality(BeingHandled)

(***************************************************************************)
(* C37: a failing point ends the scan                                      *)
(***************************************************************************)
\* C37: when the Location or the insert of the k-th surviving point of a
\* process_point_cloud call fails, the step that reaches that point ends the
\* call with that error: the call has completed k - 1 iterations, what the
\* environment index holds stays as it is, nothing is left for the call to
\* insert, and points_processed and processing_time are as before.
C37_FailureEndsScan ==
    [][\A t \in Tasks :
          (/\ task[t].op = "process_point_cloud" /\ task[t].pc = "insert"
           /\ task[t].pts # << >> /\ task'[t] # task[t]
           /\ FailureAt(PointAt(KeptOf(task[t].args[1]), task[t].cursor + 1)) # "none")
          => /\ task'[t].pc = "done"
             /\ task'[t].res = FailureAt(PointAt(KeptOf(task[t].args[1]), task[t].cursor + 1))
             /\ task'[t].cursor = task[t].cursor
             /\ task'[t].pts = << >>
             /\ rtree' = rtree
             /\ metrics' = metrics]_vars

\* A call on a frame of two surviving points has ended on the first with the
\* index's validation error; the metrics show no point processed.
C37_Witness ==
    \E t \in Tasks :
        /\ task[t].op = "process_point_cloud" /\ task[t].pc = "done"
        /\ task[t].n = 2 /\ task[t].cursor = 0
        /\ task[t].res = "PointValidation"
        /\ metrics.points_processed = 0

(***************************************************************************)
(* C38: scans do not interleave                                            *)
(***************************************************************************)
\* The calls inside the insert loop of process_point_cloud.
InInsertLoop == { t \in Tasks : task[t].op \in ScanOps /\ task[t].pc = "insert" }

\* C38: a call inside its insert loop holds the guard of the environment
\* index, from before its first insert until after its last, so at most one
\* call is inside the loop and no insert of another call falls between two
\* inserts of a frame.
C38_ScansDoNotInterleave ==
    /\ \A t \in InInsertLoop : idxMutex[IndexOf("env")] = t
    /\ Cardinality(InInsertLoop) <= 1

\* One call is inside its insert loop while a second call, started on the same
\* processor, waits for the guard.
C38_Witness ==
    \E t \in Tasks, u \in Tasks :
        /\ t # u
        /\ t \in InInsertLoop /\ task[t].op = "process_point_cloud"
        /\ task[u].op = "process_point_cloud" /\ task[u].pc = "env_lock"

====
